---- MODULE Spec2Model ----
(***************************************************************************)
(* Request dispatch of Spiceflow (src/src/spiceflow.ts): the application   *)
(* tree, the scope of a matched route, and handle() with its middleware    *)
(* chain, written as a state machine.                                      *)
(*                                                                         *)
(* JavaScript runs one synchronous segment at a time.  `running` is the    *)
(* stack of activations now executing; an activation that reaches an       *)
(* await leaves the stack and is resumed, in any order, once the stack is  *)
(* empty and the promise it awaits is settled.                             *)
(***************************************************************************)
EXTENDS Integers, Sequences, FiniteSets, TLC

\* ------------------------------------------------------------------ bounds
MaxMw == 2
MaxEh == 1
MaxApps == 3
MaxReq == 2
MaxRoutes == 1
MaxPar == 1
MaxYield == 3

\* ------------------------------------------------------------------ values
NoStatus == 0 - 1
DefaultErrorStatus == 500
ValidationStatus == 422
NotFoundStatus == 404
OkStatus == 200
\* the status of a response a handler builds with a status of its own
OwnStatus == 401

Undef == [t |-> "undef", n |-> 0, n2 |-> 0, m |-> ""]
RespRef(id) == [t |-> "resp", n |-> id, n2 |-> 0, m |-> ""]
PlainVal(x, nx) == [t |-> "val", n |-> x, n2 |-> nx, m |-> ""]
ErrVal(status, msg) == [t |-> "err", n |-> status, n2 |-> 0, m |-> msg]
\* a generator object
GenVal == [t |-> "gen", n |-> 0, n2 |-> 0, m |-> ""]

\* the thrown values that are not responses
Errors == {ErrVal(NoStatus, "boom"), ErrVal(400, "bad"), ErrVal(NoStatus, "")}
ValidationError == ErrVal(ValidationStatus, "validation")

isResponse(v) == v.t = "resp"
isAsyncIterable(v) == v.t = "gen"
Truthy(v) == v.t # "undef"

Pending == [st |-> "pending", v |-> Undef]
Resolved(v) == [st |-> "ok", v |-> v]
Rejected(v) == [st |-> "err", v |-> v]

\* ------------------------------------------------------------------ kinds
\* what a middleware function does with (context, next)
MwKinds == {"pass", "retNext", "nextVoid", "nextOwn", "resp", "value",
            "throwErr", "throwResp", "next2seq", "next2par"}
CallsNext(k) == k \in {"retNext", "nextVoid", "nextOwn", "next2seq", "next2par"}
\* what a route handler does
HandlerKinds == {"value", "resp", "throwErr", "throwResp"}
\* what an onError handler returns: nothing, a response, or (an async
\* handler) a promise, which runErrorHandlers does not await
EhKinds == {"none", "resp", "promise"}
\* the same and a handler that throws
EhKindsThrow == EhKinds \cup {"throw"}
\* which validators a route carries
HookKinds == {"none", "query", "params", "both"}

Apps == 1..MaxApps
Reqs == 1..MaxReq

VARIABLES
  cfg,              \* the limits and kinds of the specification being explored
  napps,            \* number of constructed applications (ids 1..napps)
  childrenApps,     \* app -> sequence of mounted applications
  scoped,           \* app -> "true" | "false" | "undefined"
  middlewares,      \* app -> sequence of middleware kinds
  onErrorHandlers,  \* app -> sequence of onError kinds
  routes,           \* app -> sequence of routes
  heap,             \* state objects: id -> [x, nested]
  call,             \* request -> the locals of one handle() invocation
  frames,           \* request -> sequence of next() invocations
  responses,        \* request -> sequence of Response objects it created
  log,              \* request -> sequence of invocations, in order
  running,          \* stack of activations in their synchronous segment
  late,             \* a middleware was registered after a route (history)
  prefix,           \* app -> basePath, a string of characters (<<>>: none)
  stream,           \* one handleStream() invocation and its response stream
  parsing,          \* the last parseQuery() call: its argument and result
  topLevelApp       \* app -> the application match() stored in it (0: unset)

vars == <<cfg, napps, childrenApps, scoped, middlewares, onErrorHandlers,
          routes, heap, call, frames, responses, log, running, late, prefix,
          stream, parsing, topLevelApp>>

\* ---- query strings ----
\* A query string is a sequence of tokens: "=" and "&" separate, the other
\* tokens are text ("toString" stands for those eight characters).
MaxQuery == 6
Tokens == {"a", "1", "toString", "=", "&"}
QueryStrings == UNION {[1..n -> Tokens] : n \in 0..MaxQuery}

indexOf(s, c) ==
  IF \E i \in 1..Len(s) : s[i] = c
  THEN CHOOSE i \in 1..Len(s) : s[i] = c /\ \A j \in 1..(i - 1) : s[j] # c
  ELSE 0

RECURSIVE split(_, _)
split(s, c) ==
  LET i == indexOf(s, c)
  IN IF i = 0 THEN <<s>>
     ELSE <<SubSeq(s, 1, i - 1)>> \o split(SubSeq(s, i + 1, Len(s)), c)

\* new URLSearchParams(queryString): the non-empty pieces between "&", each
\* cut at its first "=" (no "=": the value is the empty string)
URLSearchParams(queryString) ==
  LET pieces == SelectSeq(split(queryString, "&"), LAMBDA p : p # <<>>)
      pair(p) == LET i == indexOf(p, "=")
                 IN IF i = 0 THEN [key |-> p, value |-> <<>>]
                    ELSE [key |-> SubSeq(p, 1, i - 1),
                          value |-> SubSeq(p, i + 1, Len(p))]
  IN [i \in 1..Len(pieces) |-> pair(pieces[i])]

\* values of a property of paramsObject: a string, a list of values, the
\* function a plain object inherits, or undefined
StringOf(s) == [t |-> "string", v |-> <<s>>]
ListOf(l) == [t |-> "array", v |-> l]
Native == [t |-> "function", v |-> <<>>]
Undefined == [t |-> "undefined", v |-> <<>>]
ObjectPrototype == {<<"toString">>}

\* paramsObject[key] of an object created by {}
Get(obj, key) ==
  IF key \in DOMAIN obj THEN obj[key]
  ELSE IF key \in ObjectPrototype THEN Native
  ELSE Undefined
Set(obj, key, val) ==
  [k \in DOMAIN obj \cup {key} |-> IF k = key THEN val ELSE obj[k]]
\* an element of a list is the string itself, or the inherited function
ItemOf(val) == IF val.t = "string" THEN val.v[1] ELSE <<"[native code]">>
truthy(val) ==
  \/ val.t \in {"array", "function"}
  \/ val.t = "string" /\ val.v[1] # <<>>

RECURSIVE parseLoop(_, _, _)
parseLoop(params, i, paramsObject) ==
  IF i > Len(params) THEN paramsObject
  ELSE LET key == params[i].key
           value == params[i].value
           old == Get(paramsObject, key)
       IN parseLoop(params, i + 1,
            IF truthy(old)
            THEN Set(paramsObject, key,
                     IF old.t = "array" THEN ListOf(Append(old.v, value))
                     ELSE ListOf(<<ItemOf(old), value>>))
            ELSE Set(paramsObject, key, StringOf(value)))

parseQuery(queryString) ==
  parseLoop(URLSearchParams(queryString), 1, <<>>)

NoQuery == [called |-> FALSE, queryString |-> <<>>, query |-> <<>>]

appVars == <<napps, childrenApps, scoped, middlewares, onErrorHandlers, routes>>

\* ------------------------------------------------------------------ helpers
RECURSIVE Flatten(_)
Flatten(ss) == IF ss = <<>> THEN <<>> ELSE Head(ss) \o Flatten(Tail(ss))

RECURSIVE SumLens(_, _)
SumLens(f, S) ==
  IF S = {} THEN 0
  ELSE LET a == CHOOSE x \in S : TRUE IN Len(f[a]) + SumLens(f, S \ {a})

RECURSIVE CountKind(_, _, _)
CountKind(f, S, k) ==
  IF S = {} THEN 0
  ELSE LET a == CHOOSE x \in S : TRUE
       IN Cardinality({i \in 1..Len(f[a]) : f[a][i] = k}) + CountKind(f, S \ {a}, k)

Range(s) == {s[i] : i \in 1..Len(s)}
Includes(s, x) == \E i \in 1..Len(s) : s[i] = x
Count(s, x) == Cardinality({i \in 1..Len(s) : s[i] = x})

\* ------------------------------------------------------------------ tree
\* bfs(tree): level order, descending into childrenApps
RECURSIVE bfsQueue(_, _, _)
bfsQueue(ch, queue, nodes) ==
  IF queue = <<>> THEN nodes
  ELSE LET node == Head(queue)
       IN bfsQueue(ch, Tail(queue) \o ch[node], Append(nodes, node))

bfs(ch, tree) == bfsQueue(ch, <<tree>>, <<>>)

\* the parent map of getAppAndParents: child id -> parent, a later visit
\* of the traversal overwriting an earlier one
parentMap(ch, root) ==
  LET order == bfs(ch, root)
      parentsOf(c) == {i \in 1..Len(order) : Includes(ch[order[i]], c)}
  IN [c \in Apps |->
        IF parentsOf(c) = {} THEN 0
        ELSE order[CHOOSE i \in parentsOf(c) : \A j \in parentsOf(c) : j <= i]]

RECURSIVE walkUp(_, _, _)
walkUp(pm, current, parents) ==
  IF current = 0 THEN parents
  ELSE walkUp(pm, pm[current], <<current>> \o parents)

getAppAndParents(ch, root, currentApp) ==
  IF Len(ch[root]) = 0 THEN <<root>>
  ELSE walkUp(parentMap(ch, root), currentApp, <<>>)

InScopeAlways(sc, withParents, app) == TRUE
InScope(sc, withParents, app) ==
  sc[app] = "false" \/ Includes(withParents, app)

ancestorsOnly(ch, sc, root, currentApp) == getAppAndParents(ch, root, currentApp)
getAppsInScope(ch, sc, root, currentApp) ==
  IF Len(ch[root]) = 0 THEN <<root>>
  ELSE LET withParents == getAppAndParents(ch, root, currentApp)
           wantedOrder == bfs(ch, root)
       IN SelectSeq(wantedOrder, LAMBDA app : InScope(sc, withParents, app))

\* appsInScope.flatMap((x) => x.middlewares), each entry with its owner
flatMapReversed(apps, field) ==
  Flatten([i \in 1..Len(apps) |->
             [j \in 1..Len(field[apps[Len(apps) + 1 - i]]) |->
                [app |-> apps[Len(apps) + 1 - i],
                 k |-> field[apps[Len(apps) + 1 - i]][j], pos |-> j]]])
flatMap(apps, field) ==
  Flatten([i \in 1..Len(apps) |->
             [j \in 1..Len(field[apps[i]]) |->
                [app |-> apps[i], k |-> field[apps[i]][j], pos |-> j]]])

\* ------------------------------------------------------------------ paths
\* A string is the sequence of its characters.
\* s.replace(/\/$/, "")
stripTrailingSlash(s) ==
  IF s # <<>> /\ s[Len(s)] = "/" THEN SubSeq(s, 1, Len(s) - 1) ELSE s

\* s || "/"
orSlash(s) == IF s = <<>> THEN <<"/">> ELSE s

\* path.startsWith(p)
startsWith(path, p) == Len(p) <= Len(path) /\ SubSeq(path, 1, Len(p)) = p

\* path.replace(p, "") for a path that starts with p
removePrefix(path, p) == SubSeq(path, Len(p) + 1, Len(path))

\* add: path = path?.replace(/\/$/, "") || "/"
normalizePath(path) == orSlash(stripTrailingSlash(path))

\* the part of a url before its query string
beforeQuery(url) ==
  IF \E i \in 1..Len(url) : url[i] = "?"
  THEN SubSeq(url, 1, (CHOOSE i \in 1..Len(url) :
                         url[i] = "?" /\ \A j \in 1..(i - 1) : url[j] # "?") - 1)
  ELSE url

\* a registered path against a url: ":" stands for a named parameter and
\* takes one segment (segments are single characters here)
segMatch(pat, url) ==
  /\ Len(pat) = Len(url)
  /\ \A i \in 1..Len(pat) :
       pat[i] = url[i] \/ (pat[i] = ":" /\ url[i] \notin {"/", "?"})

\* router.find(url) over the paths registered in one application: the url
\* must start with "/", its query string is not looked at, and the rest
\* must be a registered path, character for character, or else fit a
\* registered path with a parameter
routerFind(registered, url) ==
  IF url = <<>> \/ url[1] # "/" THEN {}
  ELSE LET static == {i \in 1..Len(registered) :
                        registered[i].path = beforeQuery(url)}
       IN IF static # {} THEN static
          ELSE {i \in 1..Len(registered) :
                  segMatch(registered[i].path, beforeQuery(url))}

\* match: the prefix of an application, joined from the root down
ownPrefix(ch, pf, root, app) == stripTrailingSlash(pf[app])
prefixOf(ch, pf, root, app) ==
  LET parents == getAppAndParents(ch, root, app)
  IN stripTrailingSlash(Flatten([i \in 1..Len(parents) |-> pf[parents[i]]]))

HeadOf(k) == CASE k = "value" -> "headOfValue"
               [] k = "resp" -> "headOfResp"
               [] k = "respOwn" -> "headOfRespOwn"
               [] OTHER -> "headOfThrow"
GetOf(k) == CASE k = "headOfValue" -> "value"
              [] k = "headOfResp" -> "resp"
              [] k = "headOfRespOwn" -> "respOwn"
              [] OTHER -> "throwErr"
IsHead(k) == k \in {"headOfValue", "headOfResp", "headOfRespOwn", "headOfThrow"}

NoMatch == [found |-> FALSE, app |-> 0, route |-> 0, head |-> FALSE]

\* the callback of bfsFind in match, for one application
matchAppAnyMethod(ch, pf, rts, root, app, method, path) ==
  LET pre == prefixOf(ch, pf, root, app)
      pathWithoutPrefix == IF pre # <<>> THEN orSlash(removePrefix(path, pre))
                           ELSE path
      medleyRoute == routerFind(rts[app], pathWithoutPrefix)
  IN IF pre # <<>> /\ ~startsWith(path, pre) THEN [NoMatch EXCEPT !.app = 0]
     ELSE IF medleyRoute = {} THEN [NoMatch EXCEPT !.app = app]
     ELSE [found |-> TRUE, app |-> app,
           route |-> CHOOSE i \in medleyRoute : \A j \in medleyRoute : j <= i,
           head |-> FALSE]
matchAppOldest(ch, pf, rts, root, app, method, path) ==
  LET pre == prefixOf(ch, pf, root, app)
      pathWithoutPrefix == IF pre # <<>> THEN orSlash(removePrefix(path, pre))
                           ELSE path
      medleyRoute == routerFind(rts[app], pathWithoutPrefix)
      store(m) == {i \in medleyRoute : rts[app][i].method = m}
      first(S) == CHOOSE i \in S : \A j \in S : i <= j
  IN IF pre # <<>> /\ ~startsWith(path, pre) THEN [NoMatch EXCEPT !.app = 0]
     ELSE IF medleyRoute = {} THEN [NoMatch EXCEPT !.app = app]
     ELSE IF store(method) # {}
     THEN [found |-> TRUE, app |-> app, route |-> first(store(method)), head |-> FALSE]
     ELSE IF method = "HEAD" /\ store("GET") # {}
     THEN [found |-> TRUE, app |-> app, route |-> first(store("GET")), head |-> TRUE]
     ELSE NoMatch
matchAppNoFallback(ch, pf, rts, root, app, method, path) ==
  LET pre == prefixOf(ch, pf, root, app)
      pathWithoutPrefix == IF pre # <<>> THEN orSlash(removePrefix(path, pre))
                           ELSE path
      medleyRoute == routerFind(rts[app], pathWithoutPrefix)
      store(m) == {i \in medleyRoute : rts[app][i].method = m}
      last(S) == CHOOSE i \in S : \A j \in S : j <= i
  IN IF pre # <<>> /\ ~startsWith(path, pre) THEN NoMatch
     ELSE IF store(method) # {}
     THEN [found |-> TRUE, app |-> app, route |-> last(store(method)), head |-> FALSE]
     ELSE IF method = "HEAD" /\ store("GET") # {}
     THEN [found |-> TRUE, app |-> app, route |-> last(store("GET")), head |-> TRUE]
     ELSE NoMatch
matchApp(ch, pf, rts, root, app, method, path) ==
  LET pre == prefixOf(ch, pf, root, app)
      pathWithoutPrefix == IF pre # <<>> THEN orSlash(removePrefix(path, pre))
                           ELSE path
      medleyRoute == routerFind(rts[app], pathWithoutPrefix)
      store(m) == {i \in medleyRoute : rts[app][i].method = m}
      last(S) == CHOOSE i \in S : \A j \in S : j <= i
  IN IF pre # <<>> /\ ~startsWith(path, pre) THEN [NoMatch EXCEPT !.app = 0]
     ELSE IF medleyRoute = {} THEN [NoMatch EXCEPT !.app = app]
     ELSE IF store(method) # {}
     THEN [found |-> TRUE, app |-> app, route |-> last(store(method)), head |-> FALSE]
     ELSE IF method = "HEAD" /\ store("GET") # {}
     THEN [found |-> TRUE, app |-> app, route |-> last(store("GET")), head |-> TRUE]
     ELSE NoMatch

\* bfsFind(this, callback): the first application, in breadth-first order,
\* whose callback returns a route; foundApp is the last application whose
\* router knows no such path
RECURSIVE bfsFind(_, _, _, _, _, _, _, _)
bfsFind(ch, pf, rts, root, queue, method, path, foundApp) ==
  IF queue = <<>> THEN [NoMatch EXCEPT !.app = IF foundApp = 0 THEN root ELSE foundApp]
  ELSE LET node == Head(queue)
           res == matchApp(ch, pf, rts, root, node, method, path)
       IN IF res.found THEN res
          ELSE bfsFind(ch, pf, rts, root, Tail(queue) \o ch[node], method, path,
                       IF res.app # 0 THEN res.app ELSE foundApp)

\* match(method, path)
matchDeepest(ch, pf, rts, root, method, path) ==
  LET order == bfs(ch, root)
      hit(i) == matchApp(ch, pf, rts, root, order[i], method, normalizePath(path))
      hits == {i \in 1..Len(order) : hit(i).found}
  IN IF hits = {}
     THEN bfsFind(ch, pf, rts, root, <<root>>, method, normalizePath(path), 0)
     ELSE hit(CHOOSE i \in hits : \A j \in hits : j <= i)
match(ch, pf, rts, root, method, path) ==
  bfsFind(ch, pf, rts, root, <<root>>, method, normalizePath(path), 0)

\* ------------------------------------------------------------------ state objects
\* A state object has a primitive field x and a nested object; ids name the
\* owner: the defaultState of an application or the state of a request.
NoObj == [o |-> "none", i |-> 0, k |-> "top"]
AppObj(a, k) == [o |-> "app", i |-> a, k |-> k]
ReqObj(r, k) == [o |-> "req", i |-> r, k |-> k]
\* the object a caller passes to handle() as options.state for request r
CustomObj(r, k) == [o |-> "custom", i |-> r, k |-> k]
ObjIds == {AppObj(a, k) : a \in Apps, k \in {"top", "nested"}}
          \cup {ReqObj(r, k) : r \in Reqs, k \in {"top", "nested"}}
          \cup {CustomObj(r, k) : r \in Reqs, k \in {"top", "nested"}}
InitialX == 0 - 1
CustomX == 42

\* lodashCloneDeep(defaultState) for request r: a copy of the object and of
\* the object nested in it
cloneShallow(h, src, r) ==
  [h EXCEPT ![ReqObj(r, "top")] = [x |-> h[src].x, nested |-> h[src].nested]]
cloneDeep(h, src, r) ==
  [h EXCEPT ![ReqObj(r, "top")] = [x |-> h[src].x, nested |-> ReqObj(r, "nested")],
            ![ReqObj(r, "nested")] = [x |-> h[h[src].nested].x, nested |-> NoObj]]

\* const state = customState || lodashCloneDeep(defaultState)
stateAlwaysClone(customState, r) == ReqObj(r, "top")
stateFor(customState, r) ==
  IF customState # NoObj THEN customState ELSE ReqObj(r, "top")

\* ------------------------------------------------------------------ routes
NoHandler == "none"
notFoundRoute == [handler |-> "notFound", hooks |-> "none", type |-> ""]
hasValidateQuery(route) == route.hooks \in {"query", "both"}
hasValidateParams(route) == route.hooks \in {"params", "both"}
hasValidateBody(route) == route.hooks = "body"

IdleCall ==
  [st |-> "idle", app |-> 0, internalRoute |-> notFoundRoute,
   middlewares |-> <<>>, onErrorHandlers |-> <<>>, state |-> NoObj,
   index |-> 0, handlerResponse |-> Undef, query |-> "raw", params |-> "raw",
   response |-> Undef, method |-> "", path |-> <<>>, customState |-> NoObj,
   body |-> "none"]

\* ------------------------------------------------------------------ frames
\* one next() invocation, with the middleware it runs (if any)
NewFrame(caller, via) ==
  [caller |-> caller, via |-> via, pc |-> "enter", mw |-> 0, mwpc |-> "none",
   mwOut |-> Pending, kid1 |-> 0, kid2 |-> 0, rec |-> 0, tmp |-> Pending,
   out |-> Pending, caught |-> FALSE, err |-> Undef, ehs |-> <<>>]

Entry(r, f, t) == [r |-> r, f |-> f, t |-> t]

Store(r) ==
  [r |-> r, c |-> call[r], fs |-> frames[r], rs |-> responses[r],
   lg |-> log[r], run |-> running, hp |-> heap]

Commit(S) ==
  /\ call' = [call EXCEPT ![S.r] = S.c]
  /\ frames' = [frames EXCEPT ![S.r] = S.fs]
  /\ responses' = [responses EXCEPT ![S.r] = S.rs]
  /\ log' = [log EXCEPT ![S.r] = S.lg]
  /\ running' = S.run
  /\ heap' = S.hp

Ev(w, i) == [w |-> w, i |-> i]
logIt(S, w, i) == [S EXCEPT !.lg = Append(@, Ev(w, i))]

NewResponse(status, by, src, x, nx, msg) ==
  [status |-> status, by |-> by, src |-> src, x |-> x, nx |-> nx, msg |-> msg,
   headers |-> {},
   ctype |-> IF by \in {"json", "error"} THEN "application/json" ELSE "",
   body |-> IF by = "head" THEN "" ELSE "data"]
alloc(S, resp) == [S EXCEPT !.rs = Append(@, resp)]
lastRef(S) == RespRef(Len(S.rs))

setHeader(S, v, h) ==
  IF isResponse(v) THEN [S EXCEPT !.rs[v.n].headers = @ \cup {h}] ELSE S

\* a call of next(): the new invocation starts its synchronous segment now
callNext(S, caller, via) ==
  [S EXCEPT !.fs = Append(@, NewFrame(caller, via)),
            !.run = <<Entry(S.r, Len(S.fs) + 1, "next")>> \o @]

\* return / throw out of a next() invocation
settle(S, f, p) == [S EXCEPT !.fs[f].pc = "done", !.fs[f].out = p]

\* ------------------------------------------------------------------ next()
\* line 762: if (isResponse(result)) handlerResponse = result
storeMiddlewareResponse(handlerResponse, result) ==
  IF isResponse(result) THEN result ELSE handlerResponse

\* line 765: if (!result && index < middlewares.length) return await next()
continueChain(result, index, length) == ~Truthy(result) /\ index < length

\* line 767: else if (result) return await turnHandlerResultIntoResponse(...)
convertResult(result) == Truthy(result)

\* line 757: if (index < middlewares.length)
hasMiddleware(index, length) == index < length

\* line 774: if (handlerResponse) return handlerResponse
reuseNever(handlerResponse) == FALSE
reuseHandlerResponse(handlerResponse) == Truthy(handlerResponse)

\* line 739: const status = err?.status ?? 500
errorStatusIgnored(err) == DefaultErrorStatus
errorStatus(err) == IF err.n = NoStatus THEN DefaultErrorStatus ELSE err.n

\* line 743: message: err?.message || "Internal Server Error"
errorMessage(err) == IF err.m = "" THEN "Internal Server Error" ELSE err.m

\* turnHandlerResultIntoResponse up to its return: a response passes through,
\* any other value is serialized into a new application/json response
turnAlwaysSerialize(S, result) ==
  LET S1 == alloc(S, NewResponse(OkStatus, "json", 0, result.n, result.n2, ""))
  IN [S |-> S1, p |-> Resolved(lastRef(S1))]
turnUntyped(S, result) ==
  IF isResponse(result) THEN [S |-> S, p |-> Resolved(result)]
  ELSE LET S1 == alloc(S, NewResponse(OkStatus, "json", 0, result.n, result.n2, ""))
       IN [S |-> S1, p |-> Resolved(lastRef(S1))]
\* with the declared type of the route (lines 1079-1116): result.m tells a
\* string and URL-encoded parameters from any other value
turnHandlerResultIntoResponse(S, result) ==
  LET type == S.c.internalRoute.type
      S1 == alloc(S, NewResponse(OkStatus, "json", 0, result.n, result.n2, ""))
      S2 == alloc(S, [NewResponse(OkStatus, "typed", 0, result.n, result.n2, "")
                        EXCEPT !.ctype = type])
      invalid == [S |-> S, p |-> Rejected(ErrVal(NoStatus, "Invalid"))]
  IN IF isResponse(result) THEN [S |-> S, p |-> Resolved(result)]
     ELSE IF type = "multipart/form-data" THEN invalid
     ELSE IF type = "application/x-www-form-urlencoded"
     THEN IF result.m = "params" THEN [S |-> S2, p |-> Resolved(lastRef(S2))]
          ELSE invalid
     ELSE IF type = "text/plain"
     THEN IF result.m = "string" THEN [S |-> S2, p |-> Resolved(lastRef(S2))]
          ELSE invalid
     ELSE [S |-> S1, p |-> Resolved(lastRef(S1))]

\* runValidation(value, validate): the validator is called when runValidation
\* is, its outcome is read after the await
runValidation(S, f, what, pc, has, ok) ==
  LET S1 == IF has THEN logIt(S, what, 0) ELSE S
  IN [S1 EXCEPT !.fs[f].pc = pc,
                !.fs[f].tmp = IF has /\ ~ok THEN Rejected(ValidationError)
                              ELSE Resolved(Undef)]

\* lines 774-781: no middleware left to run
afterChain(S, f, ok) ==
  IF reuseHandlerResponse(S.c.handlerResponse)
  THEN settle(S, f, Resolved(S.c.handlerResponse))
  ELSE runValidation(S, f, "validateQuery", "valQ",
                     hasValidateQuery(S.c.internalRoute), ok)

\* runErrorHandlers: the handlers are called in order, without awaiting them,
\* until one returns a response
RECURSIVE runErrorHandlers(_, _, _)
runErrorHandlers(S, f, i) ==
  IF i > Len(S.c.onErrorHandlers) THEN [S |-> S, res |-> Undef, threw |-> FALSE]
  ELSE LET S1 == [logIt(S, "onError", i) EXCEPT
                    !.fs[f].ehs = Append(@, S.c.onErrorHandlers[i])]
       IN IF S.c.onErrorHandlers[i].k = "resp"
          THEN LET S2 == alloc(S1, NewResponse(OkStatus, "onError", i, 0, 0, ""))
               IN [S |-> S2, res |-> lastRef(S2), threw |-> FALSE]
          ELSE IF S.c.onErrorHandlers[i].k = "throw"
          THEN [S |-> S1, res |-> ErrVal(NoStatus, "onError"), threw |-> TRUE]
          ELSE runErrorHandlers(S1, f, i + 1)

\* catch (err): getResForError(err) up to its first await.  A throw inside
\* the catch block itself leaves next() as a rejection.
enterCatch(S, f, err) ==
  IF S.fs[f].caught THEN settle(S, f, Rejected(err))
  ELSE IF isResponse(err)
  THEN [S EXCEPT !.fs[f].caught = TRUE, !.fs[f].err = err,
                 !.fs[f].pc = "awaitErr", !.fs[f].tmp = Resolved(err)]
  ELSE LET R == runErrorHandlers(S, f, 1)
       IN [R.S EXCEPT !.fs[f].caught = TRUE, !.fs[f].err = err,
                      !.fs[f].pc = "errH",
                      !.fs[f].tmp = IF R.threw THEN Rejected(R.res)
                                    ELSE Resolved(R.res)]

\* return await next(), from inside next() (lines 766 and 805)
recurse(S, f) ==
  callNext([S EXCEPT !.fs[f].pc = "awaitRec", !.fs[f].rec = Len(S.fs) + 1],
           f, "rec")

\* ------------------------------------------------------------------ middleware
mwSettle(S, f, p) == [S EXCEPT !.fs[f].mwOut = p, !.fs[f].mwpc = "done"]

\* a middleware writes the per-request state it was given (state.x = ...)
writeState(S) ==
  LET top == S.c.state
      nested == S.hp[top].nested
  IN [S EXCEPT !.hp[top].x = S.r, !.hp[nested].x = S.r]

\* the synchronous start of a middleware of kind k
mwBody(S, f, k, e) ==
  LET i == S.fs[f].mw
  IN CASE k = "pass" -> mwSettle(S, f, Resolved(Undef))
       [] k = "resp" ->
            LET S1 == alloc(S, NewResponse(OkStatus, "mw", i, 0, 0, ""))
            IN mwSettle(S1, f, Resolved(lastRef(S1)))
       [] k = "value" -> mwSettle(S, f, Resolved(PlainVal(i, i)))
       [] k = "throwErr" -> mwSettle(S, f, Rejected(e))
       [] k = "throwResp" ->
            LET S1 == alloc(S, NewResponse(OkStatus, "mwThrown", i, 0, 0, ""))
            IN mwSettle(S1, f, Rejected(lastRef(S1)))
       [] OTHER ->
            callNext([S EXCEPT !.fs[f].kid1 = Len(S.fs) + 1,
                               !.fs[f].mwpc = IF k = "next2par" THEN "par1"
                                              ELSE "await1",
                               !.run = (IF k = "next2par"
                                        THEN <<Entry(S.r, f, "mw")>>
                                        ELSE <<>>) \o @],
                     f, "mw")

\* the middleware after its first await next() returned X
mwAfterNext(S, f, k, X) ==
  LET i == S.fs[f].mw
  IN CASE k = "retNext" -> mwSettle(setHeader(S, X, i), f, Resolved(X))
       [] k = "nextVoid" -> mwSettle(setHeader(S, X, i), f, Resolved(Undef))
       [] k = "nextOwn" ->
            LET S1 == alloc(S, NewResponse(OkStatus, "mw", i, 0, 0, ""))
            IN mwSettle(S1, f, Resolved(lastRef(S1)))
       [] k = "next2seq" ->
            callNext([S EXCEPT !.fs[f].kid2 = Len(S.fs) + 1,
                               !.fs[f].mwpc = "await2"], f, "mw")
       [] k = "nextThrow" -> mwSettle(S, f, Rejected(ErrVal(NoStatus, "boom")))
       [] OTHER -> [S EXCEPT !.fs[f].mwpc = "await2"]

\* ------------------------------------------------------------------ handler
\* notFoundHandler: return new Response("Not Found", { status: 404 })
notFoundThrows(S) == [S |-> S, p |-> Rejected(ErrVal(NotFoundStatus, "Not Found"))]
notFoundHandler(S) ==
  LET S1 == alloc(S, NewResponse(NotFoundStatus, "notFound", 0, 0, 0, "Not Found"))
  IN [S |-> S1, p |-> Resolved(lastRef(S1))]

\* SpiceflowRequest.json(): runValidation(body, this.validateBody), the
\* validator being the one of the matched route, if it has one
jsonUnchecked(S) == [S |-> logIt(S, "json", 0), p |-> Resolved(PlainVal(0, 0))]
json(S) ==
  LET has == hasValidateBody(S.c.internalRoute)
      S1 == logIt(S, "json", 0)
  IN [S |-> IF has THEN logIt(S1, "validateBody", 0) ELSE S1,
      p |-> IF has /\ S.c.body = "invalid" THEN Rejected(ValidationError)
            ELSE Resolved(PlainVal(0, 0))]

handlerBody(S, k, e) ==
  LET x == S.hp[S.c.state].x
      nx == S.hp[S.hp[S.c.state].nested].x
  IN CASE k = "value" -> [S |-> S, p |-> Resolved(PlainVal(x, nx))]
       [] k = "resp" ->
            LET S1 == alloc(S, NewResponse(OkStatus, "handler", 0, x, nx, ""))
            IN [S |-> S1, p |-> Resolved(lastRef(S1))]
       [] k = "throwErr" -> [S |-> S, p |-> Rejected(e)]
       [] k = "throwResp" ->
            LET S1 == alloc(S, NewResponse(OkStatus, "handlerThrown", 0, 0, 0, ""))
            IN [S |-> S1, p |-> Rejected(lastRef(S1))]
       [] k = "respOwn" ->
            LET S1 == alloc(S, [NewResponse(OwnStatus, "handler", 0, x, nx, "")
                                  EXCEPT !.ctype = "text/html"])
            IN [S |-> S1, p |-> Resolved(lastRef(S1))]
       [] k = "gen" -> [S |-> S, p |-> Resolved(GenVal)]
       [] k = "readBody" -> json(S)
       [] k = "string" -> [S |-> S, p |-> Resolved([PlainVal(x, nx) EXCEPT !.m = "string"])]
       [] k = "params" -> [S |-> S, p |-> Resolved([PlainVal(x, nx) EXCEPT !.m = "params"])]
       [] k = "void" -> [S |-> S, p |-> Resolved(Undef)]
       [] OTHER -> notFoundHandler(S)

\* the handler match() makes for a HEAD request served by a GET route, lines
\* 201-211: it calls the GET handler and builds a response of its own.  The
\* await inside it is part of this step: nothing else runs in between.
headHandler(S, k, e) ==
  LET G == handlerBody(logIt(S, "get", 0), GetOf(k), e)
  IN IF G.p.st = "err" THEN G
     ELSE IF isResponse(G.p.v)
     THEN LET response == G.S.rs[G.p.v.n]
              S1 == alloc(G.S, [NewResponse(response.status, "head", 0, 0, 0, "")
                                  EXCEPT !.headers = response.headers,
                                         !.ctype = response.ctype])
          IN [S |-> S1, p |-> Resolved(lastRef(S1))]
     ELSE LET S1 == alloc(G.S, NewResponse(OkStatus, "head", 0, 0, 0, ""))
          IN [S |-> S1, p |-> Resolved(lastRef(S1))]

\* handler(context) of the matched route
callHandler(S, k, e) ==
  IF IsHead(k) THEN headHandler(S, k, e) ELSE handlerBody(S, k, e)

\* ------------------------------------------------------------------ handleStream()
\* A producer (generator) is the values it yields and how it finishes: by
\* returning a value or by throwing.
Vals == {"v", "null", "undefined"}
Fins == Vals \cup {"throw"}
Scripts == UNION {[1..n -> Vals] : n \in 0..MaxYield}

\* chunk === undefined || chunk === null
neverEmpty(v) == FALSE
isEmpty(v) == v \in {"null", "undefined"}

NoStream ==
  [pc |-> "idle", script |-> <<>>, fin |-> "v", pos |-> 0, out |-> <<>>,
   chunked |-> FALSE, end |-> FALSE, abortpc |-> "none", closed |-> FALSE,
   escaped |-> "none", aborted |-> FALSE, interval |-> FALSE, returned |-> FALSE,
   r |-> 0, f |-> 0, caught |-> FALSE, pings |-> 0]

\* "event: message\ndata: ...\n\n" for the k-th yielded value (k = 0: the
\* finishing value), "event: done\n\n", "event: error\ndata: ...\n\n"
Frame(ev, k, v) == [ev |-> ev, k |-> k, v |-> v]

\* generator.next(): the next yielded value, or the end of the producer
pull(s) ==
  IF s.pos < Len(s.script)
  THEN [done |-> FALSE, threw |-> FALSE, value |-> s.script[s.pos + 1]]
  ELSE [done |-> s.fin # "throw", threw |-> s.fin = "throw", value |-> s.fin]

\* controller.enqueue(frame): throws once the controller is closed
enqueue(s, frame) ==
  IF s.closed THEN [s EXCEPT !.escaped = "enqueue"]
  ELSE [s EXCEPT !.out = Append(@, frame)]

\* try { controller.close() } catch {}: closing a closed controller throws
closeUnguarded(s) ==
  IF s.closed THEN [s EXCEPT !.escaped = "close"] ELSE [s EXCEPT !.closed = TRUE]
tryClose(s) == [s EXCEPT !.closed = TRUE]

\* the handler returned a generator: handleStream calls generator.next()
HandleStream(script, fin) ==
  /\ stream.pc = "idle"
  /\ script \in Scripts /\ fin \in Fins
  /\ stream' = [stream EXCEPT !.pc = "first", !.script = script, !.fin = fin]
  /\ UNCHANGED <<cfg, parsing, topLevelApp, prefix, appVars, heap, call, frames, responses, log, running,
                 late>>

\* after `init = await init`: the immediate response when the producer is
\* done, else the chunked response, whose start() registers the abort
\* listener, enqueues the first value and begins `for await`
StreamFirst ==
  /\ stream.pc = "first"
  /\ LET init == pull(stream)
         s1 == [stream EXCEPT !.pos = IF init.done \/ init.threw THEN @ ELSE @ + 1]
     IN stream' =
          IF init.threw THEN [s1 EXCEPT !.pc = "rejected"]
          ELSE IF init.done
          THEN [s1 EXCEPT !.pc = "immediate",
                          !.out = <<Frame("message", 0, init.value),
                                    Frame("done", 0, "")>>]
          ELSE LET s2 == [s1 EXCEPT !.pc = "loop", !.chunked = TRUE,
                                    !.interval = TRUE]
               IN IF ~isEmpty(init.value)
                  THEN enqueue(s2, Frame("message", s1.pos, init.value))
                  ELSE s2
  /\ UNCHANGED <<cfg, parsing, topLevelApp, prefix, appVars, heap, call, frames, responses, log, running,
                 late>>

\* a loop that also writes the finishing value of the producer
StreamPullFinal ==
  /\ stream.pc = "loop"
  /\ LET chunk == pull(stream)
         s1 == [stream EXCEPT !.pos = IF chunk.done \/ chunk.threw THEN @ ELSE @ + 1]
     IN stream' =
          IF chunk.threw THEN [s1 EXCEPT !.pc = "catch", !.caught = TRUE]
          ELSE IF chunk.done \/ s1.end
          THEN [tryClose(IF chunk.done /\ ~s1.end
                         THEN enqueue(s1, Frame("message", 0, chunk.value))
                         ELSE s1)
                  EXCEPT !.pc = "done", !.interval = FALSE,
                         !.returned = IF chunk.done THEN @ ELSE TRUE]
          ELSE IF isEmpty(chunk.value) THEN s1
          ELSE enqueue(s1, Frame("message", s1.pos, chunk.value))
  /\ UNCHANGED <<cfg, parsing, topLevelApp, prefix, appVars, heap, call, frames, responses, log, running,
                 late>>

\* one turn of `for await (const chunk of generator)`, with what follows
\* the loop when it ends: clearInterval and the guarded close
StreamPull ==
  /\ stream.pc = "loop"
  /\ LET chunk == pull(stream)
         s1 == [stream EXCEPT !.pos = IF chunk.done \/ chunk.threw THEN @ ELSE @ + 1]
     IN stream' =
          IF chunk.threw THEN [s1 EXCEPT !.pc = "catch", !.caught = TRUE]
          ELSE IF chunk.done \/ s1.end
          THEN [tryClose(s1) EXCEPT !.pc = "done", !.interval = FALSE,
                                    !.returned = IF chunk.done THEN @ ELSE TRUE]
          ELSE IF isEmpty(chunk.value) THEN s1
          ELSE enqueue(s1, Frame("message", s1.pos, chunk.value))
  /\ UNCHANGED <<cfg, parsing, topLevelApp, prefix, appVars, heap, call, frames, responses, log, running,
                 late>>

\* the catch block after `await self.runErrorHandlers(...)`: the error
\* frame, then clearInterval and the guarded close
errorFrame(s) ==
  LET s1 == enqueue(s, Frame("error", 0, ""))
  IN IF s1.escaped = "enqueue" THEN [s1 EXCEPT !.pc = "failed"]
     ELSE [tryClose(s1) EXCEPT !.pc = "done", !.interval = FALSE]

\* The error handlers are those of the handle() call that made the stream
\* (r = 0: handleStream with no error handler); a handler that throws makes
\* runErrorHandlers reject, and the await throws out of the catch block.
StreamCatch ==
  /\ stream.pc = "catch"
  /\ IF stream.r = 0
     THEN /\ stream' = errorFrame(stream)
          /\ UNCHANGED <<heap, call, frames, responses, log, running>>
     ELSE LET R == runErrorHandlers(Store(stream.r), stream.f, 1)
          IN /\ Commit(R.S)
             /\ stream' = IF R.threw
                          THEN [stream EXCEPT !.pc = "failed", !.escaped = "onError"]
                          ELSE errorFrame(stream)
  /\ UNCHANGED <<cfg, parsing, topLevelApp, prefix, appVars, late>>

\* the abort signal fires while handleStream awaits the first pull: the
\* listener is not registered yet (it is in start(), line 919), and a
\* listener added to a signal that has fired is never called
AbortEarly ==
  /\ stream.pc = "first"
  /\ ~stream.aborted
  /\ stream' = [stream EXCEPT !.aborted = TRUE]
  /\ UNCHANGED <<cfg, parsing, topLevelApp, prefix, appVars, heap, call, frames, responses, log, running,
                 late>>

\* the abort signal fires after start(): the abort listener up to
\* `await generator.return(undefined)`
Abort ==
  /\ stream.chunked
  /\ ~stream.aborted
  /\ stream' = [stream EXCEPT !.aborted = TRUE, !.end = TRUE, !.interval = FALSE,
                              !.returned = TRUE, !.abortpc = "returning"]
  /\ UNCHANGED <<cfg, parsing, topLevelApp, prefix, appVars, heap, call, frames, responses, log, running,
                 late>>

\* the abort listener after the await: the guarded close
AbortClose ==
  /\ stream.abortpc = "returning"
  /\ stream' = [tryClose(stream) EXCEPT !.abortpc = "done"]
  /\ UNCHANGED <<cfg, parsing, topLevelApp, prefix, appVars, heap, call, frames, responses, log, running,
                 late>>

\* the callback of setInterval (lines 913-917), at most MaxPing times: the
\* enqueue throws, in the timer, once the controller is closed or start()
\* has rejected
MaxPing == 1
Ping ==
  /\ stream.interval
  /\ stream.pings < MaxPing
  /\ stream' =
       LET s1 == [stream EXCEPT !.pings = @ + 1]
       IN IF s1.end \/ s1.closed \/ s1.escaped # "none" THEN s1
          ELSE enqueue(s1, Frame("ping", 0, ""))
  /\ UNCHANGED <<cfg, parsing, topLevelApp, prefix, appVars, heap, call, frames, responses, log, running,
                 late>>

\* ------------------------------------------------------------------ setup
Idle == \A r \in Reqs : call[r].st = "idle"
Root == 1

\* constructor + use(instance): parent.use(new Spiceflow({ scoped }))
UseApp(parent, sc) ==
  /\ Idle
  /\ napps < cfg.maxApps
  /\ parent \in 1..napps
  /\ napps' = napps + 1
  /\ scoped' = [scoped EXCEPT ![napps + 1] = sc]
  /\ childrenApps' = [childrenApps EXCEPT ![parent] = Append(@, napps + 1)]
  /\ UNCHANGED <<cfg, parsing, topLevelApp, prefix, stream, middlewares, onErrorHandlers, routes, heap, call, frames,
                 responses, log, running, late>>

\* use(handler): this.middlewares.push(handler)
Use(app, k) ==
  /\ Idle
  /\ app \in 1..napps
  /\ k \in cfg.mwKinds
  /\ SumLens(middlewares, Apps) < cfg.maxMw
  /\ k = "next2par" => CountKind(middlewares, Apps, k) < cfg.maxPar
  /\ middlewares' = [middlewares EXCEPT ![app] = Append(@, k)]
  /\ late' = (late \/ \E a \in Apps : routes[a] # <<>>)
  /\ UNCHANGED <<cfg, parsing, topLevelApp, prefix, stream, napps, childrenApps, scoped, onErrorHandlers, routes, heap,
                 call, frames, responses, log, running>>

\* onError(handler): this.onErrorHandlers.push(handler)
OnError(app, k) ==
  /\ Idle
  /\ app \in 1..napps
  /\ k \in cfg.ehKinds
  /\ SumLens(onErrorHandlers, Apps) < cfg.maxEh
  /\ onErrorHandlers' = [onErrorHandlers EXCEPT ![app] = Append(@, k)]
  /\ UNCHANGED <<cfg, parsing, topLevelApp, prefix, stream, napps, childrenApps, scoped, middlewares, routes, heap,
                 call, frames, responses, log, running, late>>

\* add({ method, path, handler, hooks }): this.routes.push(route)
Add(app, handler, hooks) ==
  /\ Idle
  /\ app \in 1..napps
  /\ handler \in cfg.handlerKinds
  /\ hooks \in cfg.hookKinds
  /\ SumLens(routes, Apps) < cfg.maxRoutes
  /\ routes' = [routes EXCEPT ![app] =
                  Append(@, [handler |-> handler, hooks |-> hooks, type |-> ""])]
  /\ UNCHANGED <<cfg, parsing, topLevelApp, prefix, stream, napps, childrenApps, scoped, middlewares, onErrorHandlers,
                 heap, call, frames, responses, log, running, late>>

\* add({ method, path, handler, hooks: { type } }): a route with a declared
\* response type
AddTyped(app, handler, type) ==
  /\ Idle
  /\ app \in 1..napps
  /\ handler \in cfg.handlerKinds
  /\ SumLens(routes, Apps) < cfg.maxRoutes
  /\ routes' = [routes EXCEPT ![app] =
                  Append(@, [handler |-> handler, hooks |-> "none", type |-> type])]
  /\ UNCHANGED <<cfg, parsing, topLevelApp, prefix, stream, napps, childrenApps, scoped, middlewares, onErrorHandlers,
                 heap, call, frames, responses, log, running, late>>

\* new Spiceflow({ basePath, scoped }) and parent.use(child)
Mount(parent, sc, basePath) ==
  /\ Idle
  /\ napps < cfg.maxApps
  /\ parent \in 1..napps
  /\ basePath \in cfg.basePaths
  /\ napps' = napps + 1
  /\ scoped' = [scoped EXCEPT ![napps + 1] = sc]
  /\ prefix' = [prefix EXCEPT ![napps + 1] = basePath]
  /\ childrenApps' = [childrenApps EXCEPT ![parent] = Append(@, napps + 1)]
  /\ UNCHANGED <<cfg, parsing, topLevelApp, stream, middlewares, onErrorHandlers, routes, heap, call, frames,
                 responses, log, running, late>>

\* route(method, path, handler): add() stores the path without its trailing
\* slash and registers that path in the application's router
Route(app, method, path, handler) ==
  /\ Idle
  /\ app \in 1..napps
  /\ method \in cfg.methods
  /\ path \in cfg.paths
  /\ handler \in cfg.handlerKinds
  /\ SumLens(routes, Apps) < cfg.maxRoutes
  /\ routes' = [routes EXCEPT ![app] =
                  Append(@, [handler |-> handler, hooks |-> "none", type |-> "",
                             method |-> method, path |-> normalizePath(path)])]
  /\ UNCHANGED <<cfg, parsing, topLevelApp, prefix, stream, napps, childrenApps, scoped, middlewares, onErrorHandlers,
                 heap, call, frames, responses, log, running, late>>

\* ------------------------------------------------------------------ handle()
\* handle(request) from the matched route up to `await next()`
\* the applications on which the callback of bfsFind has run (line 158)
\* when match() on root returns: all of them when no route is found, else
\* those up to the application of the route, in breadth-first order
visited(ch, root, app, found) ==
  LET order == bfs(ch, root)
      last == CHOOSE i \in 1..Len(order) : order[i] = app
  IN {order[i] : i \in 1..(IF found THEN last ELSE Len(order))}

\* root.handle(request): match() has found internalRoute in application app
StartCallOn(root, r, app, internalRoute, method, path, customState, body) ==
  /\ topLevelApp' =
       [a \in Apps |->
          IF a \in visited(childrenApps, root, app,
                           internalRoute.handler # notFoundRoute.handler)
          THEN root ELSE topLevelApp[a]]
  /\ LET appsInScope == getAppsInScope(childrenApps, scoped, root, app)
         defaultState == AppObj(app, "top")
     IN /\ heap' = IF customState # NoObj THEN heap
                   ELSE cloneDeep(heap, defaultState, r)
        /\ call' = [call EXCEPT ![r] =
             [st |-> "running", app |-> app,
              internalRoute |-> internalRoute,
              middlewares |-> flatMap(appsInScope, middlewares),
              onErrorHandlers |-> flatMap(appsInScope, onErrorHandlers),
              state |-> stateFor(customState, r),
              index |-> 0, handlerResponse |-> Undef,
              query |-> "raw", params |-> "raw", response |-> Undef,
              method |-> method, path |-> path, customState |-> customState,
              body |-> body]]
  /\ frames' = [frames EXCEPT ![r] = <<NewFrame(0, "handle")>>]
  /\ running' = <<Entry(r, 1, "next")>>
  /\ UNCHANGED <<cfg, parsing, prefix, stream, appVars, responses, log, late>>

StartCall(r, app, internalRoute, method, path, customState, body) ==
  StartCallOn(Root, r, app, internalRoute, method, path, customState, body)

\* this.handle(request) on any application of the tree: the request hits
\* route i of application app below this, or no route
HandleOn(r, this, app, i) ==
  /\ call[r].st = "idle"
  /\ r <= cfg.maxReq
  /\ IF r = 1 THEN TRUE ELSE call[r - 1].st # "idle"
  /\ running = <<>>
  /\ this \in 1..napps
  /\ Includes(bfs(childrenApps, this), app)
  /\ i \in 0..Len(routes[app])
  /\ StartCallOn(this, r, app, IF i = 0 THEN notFoundRoute ELSE routes[app][i],
                 "", <<>>, NoObj, "none")

\* handle(request) up to `await next()`.  The request either hits route i of
\* application app or hits no route, app being the closest application.
HandleCall(r, app, i) ==
  /\ call[r].st = "idle"
  /\ r <= cfg.maxReq
  /\ IF r = 1 THEN TRUE ELSE call[r - 1].st # "idle"
  /\ running = <<>>
  /\ Includes(bfs(childrenApps, Root), app)
  /\ i \in 0..Len(routes[app])
  /\ StartCall(r, app, IF i = 0 THEN notFoundRoute ELSE routes[app][i], "", <<>>,
               NoObj, "none")

\* handle(request, { state }) up to `await next()`
HandleState(r, app, i) ==
  /\ call[r].st = "idle"
  /\ r <= cfg.maxReq
  /\ IF r = 1 THEN TRUE ELSE call[r - 1].st # "idle"
  /\ running = <<>>
  /\ Includes(bfs(childrenApps, Root), app)
  /\ i \in 0..Len(routes[app])
  /\ StartCall(r, app, IF i = 0 THEN notFoundRoute ELSE routes[app][i], "", <<>>,
               CustomObj(r, "top"), "none")

\* handle(request) for a request with a JSON body, up to `await next()`;
\* lines 709-716 give the request the body validator of the matched route
HandleBody(r, app, i, body) ==
  /\ call[r].st = "idle"
  /\ r <= cfg.maxReq
  /\ IF r = 1 THEN TRUE ELSE call[r - 1].st # "idle"
  /\ running = <<>>
  /\ Includes(bfs(childrenApps, Root), app)
  /\ i \in 0..Len(routes[app])
  /\ body \in {"valid", "invalid"}
  /\ StartCall(r, app, IF i = 0 THEN notFoundRoute ELSE routes[app][i], "", <<>>,
               NoObj, body)

\* handle(request) up to `await next()`, the route being the one match()
\* finds for the request's method and its path (pathname + search)
Handle(r, method, path) ==
  /\ call[r].st = "idle"
  /\ r <= cfg.maxReq
  /\ IF r = 1 THEN TRUE ELSE call[r - 1].st # "idle"
  /\ running = <<>>
  /\ method \in cfg.reqMethods
  /\ path \in cfg.reqPaths
  /\ LET route == match(childrenApps, prefix, routes, Root, method, path)
         found == routes[route.app][route.route]
     IN StartCall(r, route.app,
                  IF ~route.found THEN notFoundRoute
                  ELSE IF route.head
                  THEN [handler |-> HeadOf(found.handler), hooks |-> "none",
                        type |-> "", method |-> method, path |-> normalizePath(path)]
                  ELSE found,
                  method, path, NoObj, "none")

\* const response = await next(); return response
HandleResume(r) ==
  /\ running = <<>>
  /\ call[r].st = "running"
  /\ frames[r][1].out.st # "pending"
  /\ call' = [call EXCEPT ![r].st = IF frames[r][1].out.st = "ok" THEN "done"
                                     ELSE "rejected",
                          ![r].response = frames[r][1].out.v]
  /\ UNCHANGED <<cfg, parsing, topLevelApp, prefix, stream, appVars, heap, frames, responses, log, running, late>>

OnTop(r, f, t) == running # <<>> /\ Head(running) = Entry(r, f, t)
Popped(r) == [Store(r) EXCEPT !.run = Tail(@)]
ValChoices(has) == IF has THEN BOOLEAN ELSE {TRUE}
ErrChoices(k) == IF k \in {"throwErr", "headOfThrow"} THEN cfg.errors ELSE {Undef}

\* next() from its call to its first await (lines 756-761 or 774-778)
NextEnter(r, f) ==
  /\ OnTop(r, f, "next")
  /\ frames[r][f].pc = "enter"
  /\ LET S == Popped(r)
         length == Len(S.c.middlewares)
     IN IF hasMiddleware(S.c.index, length)
        THEN Commit(logIt([S EXCEPT !.c.index = @ + 1,
                                    !.fs[f].mw = S.c.index + 1,
                                    !.fs[f].pc = "awaitMw",
                                    !.fs[f].mwpc = "start",
                                    !.run = <<Entry(r, f, "mw")>> \o @],
                          "mw", S.c.index + 1))
        ELSE \E ok \in ValChoices(hasValidateQuery(S.c.internalRoute)) :
               Commit(afterChain(S, f, ok))
  /\ UNCHANGED <<cfg, parsing, topLevelApp, prefix, stream, appVars, late>>

\* middleware(context, next) from its call to its first await
MwStart(r, f) ==
  /\ OnTop(r, f, "mw")
  /\ frames[r][f].mwpc = "start"
  /\ LET k == call[r].middlewares[frames[r][f].mw].k
     IN \E e \in ErrChoices(k) : Commit(mwBody(writeState(Popped(r)), f, k, e))
  /\ UNCHANGED <<cfg, parsing, topLevelApp, prefix, stream, appVars, late>>

\* a middleware that called next() without awaiting it calls next() again
MwPar(r, f) ==
  /\ OnTop(r, f, "mw")
  /\ frames[r][f].mwpc = "par1"
  /\ LET S == Popped(r)
     IN Commit(callNext([S EXCEPT !.fs[f].kid2 = Len(S.fs) + 1,
                                  !.fs[f].mwpc = "await1"], f, "mw"))
  /\ UNCHANGED <<cfg, parsing, topLevelApp, prefix, stream, appVars, late>>

\* the middleware resumes from its first await next()
MwResume(r, f) ==
  /\ running = <<>>
  /\ frames[r][f].mwpc = "await1"
  /\ LET S == Store(r)
         kid == S.fs[S.fs[f].kid1].out
         k == S.c.middlewares[S.fs[f].mw].k
     IN /\ kid.st # "pending"
        /\ IF kid.st = "err" THEN Commit(mwSettle(S, f, Rejected(kid.v)))
           ELSE Commit(mwAfterNext(S, f, k, kid.v))
  /\ UNCHANGED <<cfg, parsing, topLevelApp, prefix, stream, appVars, late>>

\* the middleware resumes from its second await next() and returns nothing
MwResume2(r, f) ==
  /\ running = <<>>
  /\ frames[r][f].mwpc = "await2"
  /\ LET S == Store(r)
         kid == S.fs[S.fs[f].kid2].out
     IN /\ kid.st # "pending"
        /\ IF kid.st = "err" THEN Commit(mwSettle(S, f, Rejected(kid.v)))
           ELSE Commit(mwSettle(S, f, Resolved(Undef)))
  /\ UNCHANGED <<cfg, parsing, topLevelApp, prefix, stream, appVars, late>>

\* const result = await middleware(context, next), lines 761-773
NextResumeMw(r, f) ==
  /\ running = <<>>
  /\ frames[r][f].pc = "awaitMw"
  /\ frames[r][f].mwOut.st # "pending"
  /\ LET S == Store(r)
         result == S.fs[f].mwOut.v
         S1 == [S EXCEPT !.c.handlerResponse = storeMiddlewareResponse(@, result)]
     IN IF S.fs[f].mwOut.st = "err" THEN Commit(enterCatch(S, f, result))
        ELSE IF continueChain(result, S.c.index, Len(S.c.middlewares))
        THEN Commit(recurse(S1, f))
        ELSE IF convertResult(result)
        THEN LET T == turnHandlerResultIntoResponse(S1, result)
             IN Commit([T.S EXCEPT !.fs[f].pc = "awaitTurn", !.fs[f].tmp = T.p])
        ELSE \E ok \in ValChoices(hasValidateQuery(S.c.internalRoute)) :
               Commit(afterChain(S1, f, ok))
  /\ UNCHANGED <<cfg, parsing, topLevelApp, prefix, stream, appVars, late>>

\* return await turnHandlerResultIntoResponse(result, route), line 768
ResumeTurn(r, f) ==
  /\ running = <<>>
  /\ frames[r][f].pc = "awaitTurn"
  /\ LET S == Store(r)
         p == S.fs[f].tmp
     IN IF p.st = "err" THEN Commit(enterCatch(S, f, p.v))
        ELSE Commit(settle(S, f, Resolved(p.v)))
  /\ UNCHANGED <<cfg, parsing, topLevelApp, prefix, stream, appVars, late>>

\* context.query = await runValidation(...), then runValidation(params)
ResumeValQ(r, f) ==
  /\ running = <<>>
  /\ frames[r][f].pc = "valQ"
  /\ LET S == Store(r)
         p == S.fs[f].tmp
         route == S.c.internalRoute
         S1 == [S EXCEPT !.c.query = IF hasValidateQuery(route) THEN "validated"
                                     ELSE @]
     IN IF p.st = "err" THEN Commit(enterCatch(S, f, p.v))
        ELSE \E ok \in ValChoices(hasValidateParams(route)) :
               Commit(runValidation(S1, f, "validateParams", "valP",
                                    hasValidateParams(route), ok))
  /\ UNCHANGED <<cfg, parsing, topLevelApp, prefix, stream, appVars, late>>

\* context.params = await runValidation(...), then the handler is called
ResumeValP(r, f) ==
  /\ running = <<>>
  /\ frames[r][f].pc = "valP"
  /\ LET S == Store(r)
         p == S.fs[f].tmp
         route == S.c.internalRoute
         S1 == logIt([S EXCEPT !.c.params = IF hasValidateParams(route)
                                            THEN "validated" ELSE @],
                     "handler", 0)
     IN IF p.st = "err" THEN Commit(enterCatch(S, f, p.v))
        ELSE \E e \in ErrChoices(route.handler) :
               LET H == callHandler(S1, route.handler, e)
               IN Commit([H.S EXCEPT !.fs[f].pc = "awaitH", !.fs[f].tmp = H.p])
  /\ UNCHANGED <<cfg, parsing, topLevelApp, prefix, stream, appVars, late>>

\* const res = await handler(context), then the conversion is started
ResumeH(r, f) ==
  /\ running = <<>>
  /\ frames[r][f].pc = "awaitH"
  /\ ~isAsyncIterable(frames[r][f].tmp.v)
  /\ LET S == Store(r)
         p == S.fs[f].tmp
     IN IF p.st = "err" THEN Commit(enterCatch(S, f, p.v))
        ELSE LET T == turnHandlerResultIntoResponse(S, p.v)
             IN Commit([T.S EXCEPT !.fs[f].pc = "awaitTurnH", !.fs[f].tmp = T.p])
  /\ UNCHANGED <<cfg, parsing, topLevelApp, prefix, stream, appVars, late>>

\* const res = await handler(context) gave a generator: handleStream is
\* called and makes its first generator.next() (lines 789-795, 888)
ResumeHStream(r, f, script, fin) ==
  /\ running = <<>>
  /\ frames[r][f].pc = "awaitH"
  /\ isAsyncIterable(frames[r][f].tmp.v)
  /\ stream.pc = "idle"
  /\ script \in Scripts /\ fin \in Fins
  /\ stream' = [stream EXCEPT !.pc = "first", !.script = script, !.fin = fin,
                              !.r = r, !.f = f]
  /\ frames' = [frames EXCEPT ![r][f].pc = "awaitStream"]
  /\ UNCHANGED <<cfg, parsing, topLevelApp, prefix, appVars, heap, call, responses, log, running, late>>

\* handlerResponse = await this.handleStream(...); return handlerResponse.
\* handleStream rejects when the first pull threw, and else resolves to the
\* event-stream response as soon as start() has run.
StreamError == ErrVal(NoStatus, "an error")
ResumeStream(r, f) ==
  /\ running = <<>>
  /\ frames[r][f].pc = "awaitStream"
  /\ stream.pc \notin {"idle", "first"}
  /\ LET S == Store(r)
         S1 == alloc(S, [NewResponse(OkStatus, "stream", 0, 0, 0, "")
                           EXCEPT !.ctype = "text/event-stream"])
     IN IF stream.pc = "rejected" THEN Commit(enterCatch(S, f, StreamError))
        ELSE Commit(settle([S1 EXCEPT !.c.handlerResponse = lastRef(S1)], f,
                           Resolved(lastRef(S1))))
  /\ UNCHANGED <<cfg, parsing, topLevelApp, prefix, stream, appVars, late>>

\* handlerResponse = await turnHandlerResultIntoResponse(res, route); return it
ResumeTurnH(r, f) ==
  /\ running = <<>>
  /\ frames[r][f].pc = "awaitTurnH"
  /\ LET S == Store(r)
         p == S.fs[f].tmp
     IN IF p.st = "err" THEN Commit(enterCatch(S, f, p.v))
        ELSE Commit(settle([S EXCEPT !.c.handlerResponse = p.v], f, Resolved(p.v)))
  /\ UNCHANGED <<cfg, parsing, topLevelApp, prefix, stream, appVars, late>>

\* getResForError after `await self.runErrorHandlers(...)`, lines 737-752
ResumeErrH(r, f) ==
  /\ running = <<>>
  /\ frames[r][f].pc = "errH"
  /\ LET S == Store(r)
         res == S.fs[f].tmp.v
         err == S.fs[f].err
         S1 == alloc(S, NewResponse(errorStatus(err), "error", 0, 0, 0,
                                    errorMessage(err)))
     IN IF S.fs[f].tmp.st = "err" \/ isResponse(res)
        THEN Commit([S EXCEPT !.fs[f].pc = "awaitErr"])
        ELSE Commit([S1 EXCEPT !.fs[f].pc = "awaitErr",
                               !.fs[f].tmp = Resolved(lastRef(S1))])
  /\ UNCHANGED <<cfg, parsing, topLevelApp, prefix, stream, appVars, late>>

\* handlerResponse = await getResForError(err); return await next()
ResumeErr(r, f) ==
  /\ running = <<>>
  /\ frames[r][f].pc = "awaitErr"
  /\ LET S == Store(r)
         p == S.fs[f].tmp
     IN IF p.st = "err" THEN Commit(settle(S, f, Rejected(p.v)))
        ELSE Commit(recurse([S EXCEPT !.c.handlerResponse = p.v], f))
  /\ UNCHANGED <<cfg, parsing, topLevelApp, prefix, stream, appVars, late>>

\* the recursive `await next()` of lines 766 and 805 returns
ResumeRec(r, f) ==
  /\ running = <<>>
  /\ frames[r][f].pc = "awaitRec"
  /\ LET S == Store(r)
         kid == S.fs[S.fs[f].rec].out
     IN /\ kid.st # "pending"
        /\ IF kid.st = "err" THEN Commit(enterCatch(S, f, kid.v))
           ELSE Commit(settle(S, f, Resolved(kid.v)))
  /\ UNCHANGED <<cfg, parsing, topLevelApp, prefix, stream, appVars, late>>

\* ------------------------------------------------------------------ specifications
InitBase(basePath) ==
  /\ napps = 1
  /\ childrenApps = [a \in Apps |-> <<>>]
  /\ scoped = [a \in Apps |-> "undefined"]
  /\ middlewares = [a \in Apps |-> <<>>]
  /\ onErrorHandlers = [a \in Apps |-> <<>>]
  /\ routes = [a \in Apps |-> <<>>]
  /\ heap = [id \in ObjIds |->
               [x |-> IF id.o = "custom" THEN CustomX ELSE InitialX,
                nested |-> IF id.o \in {"app", "custom"} /\ id.k = "top"
                           THEN [id EXCEPT !.k = "nested"] ELSE NoObj]]
  /\ call = [r \in Reqs |-> IdleCall]
  /\ frames = [r \in Reqs |-> <<>>]
  /\ responses = [r \in Reqs |-> <<>>]
  /\ log = [r \in Reqs |-> <<>>]
  /\ running = <<>>
  /\ late = FALSE
  /\ prefix = [a \in Apps |-> IF a = 1 THEN basePath ELSE <<>>]
  /\ stream = NoStream
  /\ parsing = NoQuery
  /\ topLevelApp = [a \in Apps |-> 0]

\* new Spiceflow()
InitApp == InitBase(<<>>)

Chain(r) ==
  \/ \E f \in DOMAIN frames[r] : NextEnter(r, f)
  \/ \E f \in DOMAIN frames[r] : MwStart(r, f)
  \/ \E f \in DOMAIN frames[r] : MwResume(r, f)
  \/ \E f \in DOMAIN frames[r] : NextResumeMw(r, f)
  \/ \E f \in DOMAIN frames[r] : ResumeTurn(r, f)
  \/ \E f \in DOMAIN frames[r] : ResumeValQ(r, f)
  \/ \E f \in DOMAIN frames[r] : ResumeValP(r, f)
  \/ \E f \in DOMAIN frames[r] : ResumeH(r, f)
  \/ \E f \in DOMAIN frames[r] : ResumeTurnH(r, f)
  \/ \E f \in DOMAIN frames[r] : ResumeErrH(r, f)
  \/ \E f \in DOMAIN frames[r] : ResumeErr(r, f)
  \/ \E f \in DOMAIN frames[r] : ResumeRec(r, f)
  \/ HandleResume(r)

\* one application, one request, every middleware awaiting the next() it calls
Init ==
  /\ cfg = [mwKinds |-> MwKinds \ {"next2par"}, handlerKinds |-> HandlerKinds,
            ehKinds |-> EhKinds, hookKinds |-> {"none", "both"},
            maxMw |-> MaxMw, maxPar |-> 0, maxEh |-> MaxEh, maxApps |-> 1,
            maxReq |-> 1, maxRoutes |-> MaxRoutes,
            errors |-> Errors]
  /\ InitApp

Next ==
  \/ \E k \in MwKinds : Use(Root, k)
  \/ \E k \in EhKinds : OnError(Root, k)
  \/ \E h \in HandlerKinds, hooks \in HookKinds : Add(Root, h, hooks)
  \/ \E i \in 0..MaxRoutes : HandleCall(1, Root, i)
  \/ \E f \in DOMAIN frames[1] : MwResume2(1, f)
  \/ Chain(1)

Spec == Init /\ [][Next]_vars

\* one application, one request, a middleware that has two next() calls in
\* flight at the same time
InitPar ==
  /\ cfg = [mwKinds |-> {"next2par", "next2seq", "pass", "value"},
            handlerKinds |-> {"value", "throwErr"},
            ehKinds |-> EhKinds, hookKinds |-> {"none"},
            maxMw |-> MaxMw, maxPar |-> MaxPar, maxEh |-> MaxEh, maxApps |-> 1,
            maxReq |-> 1, maxRoutes |-> MaxRoutes,
            errors |-> Errors]
  /\ InitApp

NextPar ==
  \/ Next
  \/ \E f \in DOMAIN frames[1] : MwPar(1, f)

SpecPar == InitPar /\ [][NextPar]_vars

\* a longer chain of the middlewares that stop the chain or pass it on
InitShort ==
  /\ cfg = [mwKinds |-> {"pass", "nextVoid", "retNext", "resp"},
            handlerKinds |-> {"value", "throwErr"},
            ehKinds |-> EhKinds, hookKinds |-> {"none"},
            maxMw |-> MaxMw + 1, maxPar |-> 0, maxEh |-> MaxEh, maxApps |-> 1,
            maxReq |-> 1, maxRoutes |-> MaxRoutes,
            errors |-> Errors]
  /\ InitApp

NextShort ==
  \/ \E k \in MwKinds : Use(Root, k)
  \/ \E k \in EhKinds : OnError(Root, k)
  \/ \E h \in HandlerKinds, hooks \in HookKinds : Add(Root, h, hooks)
  \/ \E i \in 0..MaxRoutes : HandleCall(1, Root, i)
  \/ Chain(1)

SpecShort == InitShort /\ [][NextShort]_vars

\* several handle() calls in flight on one application, interleaved at
\* their awaits
InitConc ==
  /\ cfg = [mwKinds |-> {"nextVoid", "resp"},
            handlerKinds |-> {"value", "throwErr"},
            ehKinds |-> {"resp"}, hookKinds |-> {"none"},
            maxMw |-> MaxMw, maxPar |-> 0, maxEh |-> MaxEh, maxApps |-> 1,
            maxReq |-> MaxReq, maxRoutes |-> MaxRoutes,
            errors |-> Errors]
  /\ InitApp

NextConc ==
  \/ \E k \in MwKinds : Use(Root, k)
  \/ \E k \in EhKinds : OnError(Root, k)
  \/ \E h \in HandlerKinds, hooks \in HookKinds : Add(Root, h, hooks)
  \/ \E r \in Reqs, i \in 0..MaxRoutes : HandleCall(r, Root, i)
  \/ \E r \in Reqs : Chain(r)

SpecConc == InitConc /\ [][NextConc]_vars

\* a tree of applications, scoped or not, whose middlewares, validators and
\* handlers throw
InitScope ==
  /\ cfg = [mwKinds |-> {"throwErr"},
            handlerKinds |-> {"throwErr"},
            ehKinds |-> EhKinds, hookKinds |-> {"none", "query"},
            maxMw |-> 1, maxPar |-> 0, maxEh |-> MaxEh + 1, maxApps |-> MaxApps,
            maxReq |-> 1, maxRoutes |-> MaxRoutes,
            errors |-> {ErrVal(NoStatus, "boom"), ErrVal(400, "bad")}]
  /\ InitApp

NextScope ==
  \/ \E parent \in Apps, sc \in {"false", "undefined"} : UseApp(parent, sc)
  \/ \E k \in MwKinds : Use(Root, k)
  \/ \E app \in Apps, k \in EhKinds : OnError(app, k)
  \/ \E app \in Apps, h \in HandlerKinds, hooks \in HookKinds : Add(app, h, hooks)
  \/ \E app \in Apps, i \in 0..MaxRoutes : HandleCall(1, app, i)
  \/ \E f \in DOMAIN frames[1] : NextEnter(1, f)
  \/ \E f \in DOMAIN frames[1] : MwStart(1, f)
  \/ \E f \in DOMAIN frames[1] : NextResumeMw(1, f)
  \/ \E f \in DOMAIN frames[1] : ResumeValQ(1, f)
  \/ \E f \in DOMAIN frames[1] : ResumeValP(1, f)
  \/ \E f \in DOMAIN frames[1] : ResumeH(1, f)
  \/ \E f \in DOMAIN frames[1] : ResumeErrH(1, f)
  \/ \E f \in DOMAIN frames[1] : ResumeErr(1, f)
  \/ \E f \in DOMAIN frames[1] : ResumeRec(1, f)
  \/ HandleResume(1)

SpecScope == InitScope /\ [][NextScope]_vars

\* one application whose onError handlers may throw
InitReject ==
  /\ cfg = [mwKinds |-> {"nextVoid", "throwErr", "resp"},
            handlerKinds |-> {"value", "throwErr"},
            ehKinds |-> {"none", "resp", "throw"}, hookKinds |-> {"none"},
            maxMw |-> MaxMw, maxPar |-> 0, maxEh |-> MaxEh, maxApps |-> 1,
            maxReq |-> 1, maxRoutes |-> MaxRoutes,
            errors |-> {ErrVal(NoStatus, "boom"), ErrVal(400, "bad")}]
  /\ InitApp

NextReject ==
  \/ \E k \in MwKinds : Use(Root, k)
  \/ \E k \in EhKindsThrow : OnError(Root, k)
  \/ \E h \in HandlerKinds, hooks \in HookKinds : Add(Root, h, hooks)
  \/ \E i \in 0..MaxRoutes : HandleCall(1, Root, i)
  \/ Chain(1)

SpecReject == InitReject /\ [][NextReject]_vars

\* middlewares that throw an error at once or after they awaited next(),
\* among middlewares that answer, and error handlers that may throw
InitThrow ==
  /\ cfg = [mwKinds |-> {"nextVoid", "throwErr", "nextThrow", "resp", "value",
                         "throwResp"},
            handlerKinds |-> {"value"},
            ehKinds |-> {"none", "resp", "throw"}, hookKinds |-> {"none"},
            maxMw |-> MaxMw, maxPar |-> 0, maxEh |-> MaxEh, maxApps |-> 1,
            maxReq |-> 1, maxRoutes |-> MaxRoutes,
            errors |-> {ErrVal(NoStatus, "boom")}]
  /\ InitApp

NextThrow ==
  \/ \E k \in MwKinds \cup {"nextThrow"} : Use(Root, k)
  \/ \E k \in EhKindsThrow : OnError(Root, k)
  \/ Add(Root, "value", "none")
  \/ \E i \in 0..MaxRoutes : HandleCall(1, Root, i)
  \/ Chain(1)

SpecThrow == InitThrow /\ [][NextThrow]_vars

\* middlewares, validators, handlers and error handlers that throw; every
\* awaited promise of the chain is settled, so its continuation runs
InitRetry ==
  /\ cfg = [mwKinds |-> {"nextVoid", "throwErr", "nextThrow", "value",
                         "throwResp"},
            handlerKinds |-> {"value", "throwErr", "throwResp"},
            ehKinds |-> {"none", "resp", "throw"},
            hookKinds |-> {"none", "both"},
            maxMw |-> MaxMw, maxPar |-> 0, maxEh |-> MaxEh, maxApps |-> 1,
            maxReq |-> 1, maxRoutes |-> MaxRoutes,
            errors |-> {ErrVal(NoStatus, "boom")}]
  /\ InitApp

NextRetry ==
  \/ \E k \in {"nextVoid", "throwErr", "nextThrow", "value", "throwResp"} :
       Use(Root, k)
  \/ \E k \in EhKindsThrow : OnError(Root, k)
  \/ \E h \in {"value", "throwErr", "throwResp"}, hooks \in {"none", "both"} :
       Add(Root, h, hooks)
  \/ \E i \in 0..MaxRoutes : HandleCall(1, Root, i)
  \/ Chain(1)

SpecRetry == InitRetry /\ [][NextRetry]_vars /\ WF_vars(Chain(1))

\* a tree of applications, handle() called on any of them
InitTop ==
  /\ cfg = [mwKinds |-> {}, handlerKinds |-> {"value"},
            ehKinds |-> {}, hookKinds |-> {"none"},
            maxMw |-> 0, maxPar |-> 0, maxEh |-> 0, maxApps |-> MaxApps,
            maxReq |-> MaxReq, maxRoutes |-> MaxRoutes,
            errors |-> {}]
  /\ InitApp

NextTop ==
  \/ \E parent \in Apps : UseApp(parent, "undefined")
  \/ \E app \in Apps : Add(app, "value", "none")
  \/ \E r \in Reqs, this \in Apps, app \in Apps, i \in 0..MaxRoutes :
       HandleOn(r, this, app, i)
  \/ \E r \in Reqs : \E f \in DOMAIN frames[r] : NextEnter(r, f)
  \/ \E r \in Reqs : \E f \in DOMAIN frames[r] : ResumeValQ(r, f)
  \/ \E r \in Reqs : \E f \in DOMAIN frames[r] : ResumeValP(r, f)
  \/ \E r \in Reqs : \E f \in DOMAIN frames[r] : ResumeH(r, f)
  \/ \E r \in Reqs : \E f \in DOMAIN frames[r] : ResumeTurnH(r, f)
  \/ \E r \in Reqs : HandleResume(r)

SpecTop == InitTop /\ [][NextTop]_vars

\* routes with a body validator, requests with a valid or an invalid body,
\* handlers that read the body or not
InitBody ==
  /\ cfg = [mwKinds |-> {"pass", "nextVoid", "retNext"},
            handlerKinds |-> {"value", "readBody"},
            ehKinds |-> {"none", "resp"}, hookKinds |-> {"none", "body"},
            maxMw |-> MaxMw, maxPar |-> 0, maxEh |-> MaxEh, maxApps |-> 1,
            maxReq |-> 1, maxRoutes |-> MaxRoutes,
            errors |-> {}]
  /\ InitApp

NextBody ==
  \/ \E k \in MwKinds : Use(Root, k)
  \/ \E k \in EhKinds : OnError(Root, k)
  \/ \E h \in {"value", "readBody"}, hooks \in {"none", "body"} : Add(Root, h, hooks)
  \/ \E i \in 0..MaxRoutes, body \in {"valid", "invalid"} : HandleBody(1, Root, i, body)
  \/ Chain(1)

SpecBody == InitBody /\ [][NextBody]_vars

\* a tree of applications with middlewares and routes anywhere in it
InitTree ==
  /\ cfg = [mwKinds |-> {"pass"},
            handlerKinds |-> {"value"},
            ehKinds |-> {}, hookKinds |-> {"none"},
            maxMw |-> MaxMw, maxPar |-> 0, maxEh |-> 0, maxApps |-> MaxApps,
            maxReq |-> 1, maxRoutes |-> MaxRoutes,
            errors |-> {}]
  /\ InitApp

NextTree ==
  \/ \E parent \in Apps, sc \in {"true", "false", "undefined"} : UseApp(parent, sc)
  \/ \E app \in Apps, k \in MwKinds : Use(app, k)
  \/ \E app \in Apps, h \in HandlerKinds, hooks \in HookKinds : Add(app, h, hooks)
  \/ \E app \in Apps, i \in 0..MaxRoutes : HandleCall(1, app, i)
  \/ \E f \in DOMAIN frames[1] : NextEnter(1, f)
  \/ \E f \in DOMAIN frames[1] : MwStart(1, f)
  \/ \E f \in DOMAIN frames[1] : NextResumeMw(1, f)
  \/ \E f \in DOMAIN frames[1] : ResumeValQ(1, f)
  \/ \E f \in DOMAIN frames[1] : ResumeValP(1, f)
  \/ \E f \in DOMAIN frames[1] : ResumeH(1, f)
  \/ \E f \in DOMAIN frames[1] : ResumeTurnH(1, f)
  \/ \E f \in DOMAIN frames[1] : ResumeRec(1, f)
  \/ HandleResume(1)

SpecTree == InitTree /\ [][NextTree]_vars

\* paths used in requests and registrations
PA == <<"/", "a">>
PB == <<"/", "b">>
PC == <<"/", "c">>

\* nested applications with base paths, routes anywhere, no middleware
InitMatch ==
  /\ cfg = [mwKinds |-> {}, handlerKinds |-> {"value"},
            ehKinds |-> {}, hookKinds |-> {"none"},
            maxMw |-> 0, maxPar |-> 0, maxEh |-> 0, maxApps |-> MaxApps,
            maxReq |-> 1, maxRoutes |-> MaxRoutes + 1,
            errors |-> {},
            basePaths |-> {<<>>, PA, PB}, methods |-> {"GET"}, paths |-> {PC},
            reqMethods |-> {"GET"},
            reqPaths |-> {PC, PB \o PC, PA \o PC, PA \o PB \o PC, PA \o PB,
                          PB \o PA \o PC, <<"/", "a", "b", "/", "c">>}]
  /\ \E basePath \in {<<>>, PA, PB} : InitBase(basePath)

NextMatch ==
  \/ \E parent \in Apps, basePath \in {<<>>, PA, PB} :
       Mount(parent, "undefined", basePath)
  \/ \E app \in Apps : Route(app, "GET", PC, "value")
  \/ \E path \in cfg.reqPaths : Handle(1, "GET", path)
  \/ \E f \in DOMAIN frames[1] : NextEnter(1, f)
  \/ \E f \in DOMAIN frames[1] : ResumeValQ(1, f)
  \/ \E f \in DOMAIN frames[1] : ResumeValP(1, f)
  \/ \E f \in DOMAIN frames[1] : ResumeH(1, f)
  \/ \E f \in DOMAIN frames[1] : ResumeTurnH(1, f)
  \/ HandleResume(1)

SpecMatch == InitMatch /\ [][NextMatch]_vars

\* a route with a named parameter
PP == <<"/", ":">>

\* nested applications whose routes, static or with a parameter, answer
\* the same paths
InitFirst ==
  /\ cfg = [mwKinds |-> {}, handlerKinds |-> {"value"},
            ehKinds |-> {}, hookKinds |-> {"none"},
            maxMw |-> 0, maxPar |-> 0, maxEh |-> 0, maxApps |-> MaxApps,
            maxReq |-> 1, maxRoutes |-> MaxRoutes + 1,
            errors |-> {},
            basePaths |-> {<<>>, PA}, methods |-> {"GET"}, paths |-> {PC, PP},
            reqMethods |-> {"GET"},
            reqPaths |-> {PC, PB, PA \o PC, PA \o PB}]
  /\ InitBase(<<>>)

NextFirst ==
  \/ \E parent \in Apps, basePath \in {<<>>, PA} :
       Mount(parent, "undefined", basePath)
  \/ \E app \in Apps, path \in {PC, PP} : Route(app, "GET", path, "value")
  \/ \E path \in cfg.reqPaths : Handle(1, "GET", path)
  \/ \E f \in DOMAIN frames[1] : NextEnter(1, f)
  \/ \E f \in DOMAIN frames[1] : ResumeValQ(1, f)
  \/ \E f \in DOMAIN frames[1] : ResumeValP(1, f)
  \/ \E f \in DOMAIN frames[1] : ResumeH(1, f)
  \/ \E f \in DOMAIN frames[1] : ResumeTurnH(1, f)
  \/ HandleResume(1)

SpecFirst == InitFirst /\ [][NextFirst]_vars

\* GET, HEAD and POST routes, requested with GET and HEAD
InitHead ==
  /\ cfg = [mwKinds |-> {}, handlerKinds |-> {"value", "resp", "respOwn"},
            ehKinds |-> {}, hookKinds |-> {"none"},
            maxMw |-> 0, maxPar |-> 0, maxEh |-> 0, maxApps |-> MaxApps - 1,
            maxReq |-> 1, maxRoutes |-> MaxRoutes + 1,
            errors |-> {},
            basePaths |-> {<<>>, PA}, methods |-> {"GET", "HEAD", "POST"},
            paths |-> {PC}, reqMethods |-> {"GET", "HEAD"},
            reqPaths |-> {PC, PA \o PC, PB}]
  /\ InitApp

NextHead ==
  \/ \E parent \in Apps, basePath \in {<<>>, PA} : Mount(parent, "undefined", basePath)
  \/ \E app \in Apps, method \in {"GET", "HEAD", "POST"},
          h \in {"value", "resp", "respOwn"} : Route(app, method, PC, h)
  \/ \E method \in {"GET", "HEAD"}, path \in {PC, PA \o PC, PB} :
       Handle(1, method, path)
  \/ \E f \in DOMAIN frames[1] : NextEnter(1, f)
  \/ \E f \in DOMAIN frames[1] : ResumeValQ(1, f)
  \/ \E f \in DOMAIN frames[1] : ResumeValP(1, f)
  \/ \E f \in DOMAIN frames[1] : ResumeH(1, f)
  \/ \E f \in DOMAIN frames[1] : ResumeTurnH(1, f)
  \/ HandleResume(1)

SpecHead == InitHead /\ [][NextHead]_vars

\* routes for some methods, requests for others, with middlewares and
\* error handlers in scope
InitMethod ==
  /\ cfg = [mwKinds |-> {"nextVoid", "resp", "throwErr"}, handlerKinds |-> {"value"},
            ehKinds |-> {"none", "resp"}, hookKinds |-> {"none"},
            maxMw |-> MaxMw - 1, maxPar |-> 0, maxEh |-> MaxEh, maxApps |-> MaxApps - 1,
            maxReq |-> 1, maxRoutes |-> MaxRoutes + 1,
            errors |-> {ErrVal(NoStatus, "boom")},
            basePaths |-> {<<>>, PA}, methods |-> {"GET", "HEAD", "POST"},
            paths |-> {PC}, reqMethods |-> {"GET", "HEAD", "POST"},
            reqPaths |-> {PC, PA \o PC}]
  /\ InitApp

NextMethod ==
  \/ \E parent \in Apps, basePath \in {<<>>, PA} : Mount(parent, "undefined", basePath)
  \/ \E app \in Apps, method \in {"GET", "HEAD", "POST"} : Route(app, method, PC, "value")
  \/ \E app \in Apps, k \in MwKinds : Use(app, k)
  \/ \E app \in Apps, k \in EhKinds : OnError(app, k)
  \/ \E method \in {"GET", "HEAD", "POST"}, path \in {PC, PA \o PC} :
       Handle(1, method, path)
  \/ Chain(1)

SpecMethod == InitMethod /\ [][NextMethod]_vars

\* parseQuery on every query string of up to MaxQuery tokens (line 725)
ParseQuery(queryString) ==
  /\ Idle
  /\ ~parsing.called
  /\ parsing' = [called |-> TRUE, queryString |-> queryString,
                 query |-> parseQuery(queryString)]
  /\ UNCHANGED <<cfg, topLevelApp, prefix, stream, appVars, heap, call, frames,
                 responses, log, running, late>>

InitQuery ==
  /\ cfg = [mwKinds |-> {}, handlerKinds |-> {}, ehKinds |-> {},
            hookKinds |-> {"none"}, maxMw |-> 0, maxPar |-> 0, maxEh |-> 0,
            maxApps |-> 1, maxReq |-> 1, maxRoutes |-> 0, errors |-> {}]
  /\ InitApp

\* one call in a behaviour: no query string is tried once it is made
NextQuery ==
  \E queryString \in IF parsing.called THEN {} ELSE QueryStrings :
    ParseQuery(queryString)

SpecQuery == InitQuery /\ [][NextQuery]_vars

\* the declared response types of a route and the values a handler returns
Types == {"", "text/plain", "application/x-www-form-urlencoded",
          "multipart/form-data"}
Results == {"value", "string", "params", "void", "resp"}

InitType ==
  /\ cfg = [mwKinds |-> {}, handlerKinds |-> Results,
            ehKinds |-> {"none", "resp"}, hookKinds |-> {"none"},
            maxMw |-> 0, maxPar |-> 0, maxEh |-> MaxEh, maxApps |-> 1,
            maxReq |-> 1, maxRoutes |-> MaxRoutes,
            errors |-> {}]
  /\ InitApp

NextType ==
  \/ \E k \in EhKinds : OnError(Root, k)
  \/ \E h \in Results, type \in Types : AddTyped(Root, h, type)
  \/ \E i \in 0..MaxRoutes : HandleCall(1, Root, i)
  \/ \E f \in DOMAIN frames[1] : NextEnter(1, f)
  \/ \E f \in DOMAIN frames[1] : ResumeValQ(1, f)
  \/ \E f \in DOMAIN frames[1] : ResumeValP(1, f)
  \/ \E f \in DOMAIN frames[1] : ResumeH(1, f)
  \/ \E f \in DOMAIN frames[1] : ResumeTurnH(1, f)
  \/ \E f \in DOMAIN frames[1] : ResumeErrH(1, f)
  \/ \E f \in DOMAIN frames[1] : ResumeErr(1, f)
  \/ \E f \in DOMAIN frames[1] : ResumeRec(1, f)
  \/ HandleResume(1)

SpecType == InitType /\ [][NextType]_vars

\* one application on which the same path and method are registered again,
\* with or without a trailing slash, next to other paths and methods
InitAgain ==
  /\ cfg = [mwKinds |-> {}, handlerKinds |-> {"value", "resp", "respOwn"},
            ehKinds |-> {}, hookKinds |-> {"none"},
            maxMw |-> 0, maxPar |-> 0, maxEh |-> 0, maxApps |-> 1,
            maxReq |-> 1, maxRoutes |-> MaxRoutes + 2,
            errors |-> {},
            basePaths |-> {<<>>}, methods |-> {"GET", "POST"},
            paths |-> {PC, PC \o <<"/">>, PB}, reqMethods |-> {"GET", "POST"},
            reqPaths |-> {PC, PB}]
  /\ InitApp

NextAgain ==
  \/ \E method \in {"GET", "POST"}, path \in {PC, PC \o <<"/">>, PB},
          h \in {"value", "resp", "respOwn"} : Route(Root, method, path, h)
  \/ \E method \in {"GET", "POST"}, path \in {PC, PB} : Handle(1, method, path)
  \/ \E f \in DOMAIN frames[1] : NextEnter(1, f)
  \/ \E f \in DOMAIN frames[1] : ResumeValQ(1, f)
  \/ \E f \in DOMAIN frames[1] : ResumeValP(1, f)
  \/ \E f \in DOMAIN frames[1] : ResumeH(1, f)
  \/ \E f \in DOMAIN frames[1] : ResumeTurnH(1, f)
  \/ HandleResume(1)

SpecAgain == InitAgain /\ [][NextAgain]_vars

\* one application; routes and requests with and without a trailing slash,
\* requests with and without a query string
Slash == <<"/">>
Query == <<"?", "q">>
SlashPaths == {PC, PC \o Slash, PC \o Query, PC \o Slash \o Query}
InitSlash ==
  /\ cfg = [mwKinds |-> {}, handlerKinds |-> {"value"},
            ehKinds |-> {}, hookKinds |-> {"none"},
            maxMw |-> 0, maxPar |-> 0, maxEh |-> 0, maxApps |-> 1,
            maxReq |-> 1, maxRoutes |-> MaxRoutes + 1,
            errors |-> {},
            basePaths |-> {<<>>, PA}, methods |-> {"GET", "POST"},
            paths |-> {PC, PC \o Slash, PB},
            reqMethods |-> {"GET"},
            reqPaths |-> SlashPaths \cup {PA \o p : p \in SlashPaths}]
  /\ \E basePath \in {<<>>, PA} : InitBase(basePath)

NextSlash ==
  \/ \E method \in {"GET", "POST"}, path \in {PC, PC \o Slash, PB} :
       Route(Root, method, path, "value")
  \/ \E path \in SlashPaths \cup {PA \o p : p \in SlashPaths} : Handle(1, "GET", path)
  \/ \E f \in DOMAIN frames[1] : NextEnter(1, f)
  \/ \E f \in DOMAIN frames[1] : ResumeValQ(1, f)
  \/ \E f \in DOMAIN frames[1] : ResumeValP(1, f)
  \/ \E f \in DOMAIN frames[1] : ResumeH(1, f)
  \/ \E f \in DOMAIN frames[1] : ResumeTurnH(1, f)
  \/ HandleResume(1)

SpecSlash == InitSlash /\ [][NextSlash]_vars

\* one handleStream() invocation for every producer of up to MaxYield values
InitStream ==
  /\ cfg = [mwKinds |-> {}, handlerKinds |-> {}, ehKinds |-> {},
            hookKinds |-> {"none"}, maxMw |-> 0, maxPar |-> 0, maxEh |-> 0,
            maxApps |-> 1, maxReq |-> 1, maxRoutes |-> 0, errors |-> {}]
  /\ InitApp

NextStream ==
  \/ \E script \in Scripts, fin \in Fins : HandleStream(script, fin)
  \/ StreamFirst
  \/ StreamPull
  \/ StreamCatch
  \/ AbortEarly
  \/ Abort
  \/ AbortClose

SpecStream == InitStream /\ [][NextStream]_vars

\* every awaited promise of handleStream and of the listener is settled
\* in the end: the producer reaches its next suspension point
SpecStreamLive ==
  /\ SpecStream
  /\ WF_vars(StreamFirst) /\ WF_vars(StreamPull) /\ WF_vars(StreamCatch)
  /\ WF_vars(AbortClose)

\* a route whose handler returns a generator, with error handlers
InitStreamApp ==
  /\ cfg = [mwKinds |-> {}, handlerKinds |-> {"gen"},
            ehKinds |-> {"none", "resp", "throw"},
            hookKinds |-> {"none"}, maxMw |-> 0, maxPar |-> 0, maxEh |-> MaxEh + 1,
            maxApps |-> 1, maxReq |-> 1, maxRoutes |-> MaxRoutes, errors |-> {}]
  /\ InitApp

NextStreamApp ==
  \/ \E k \in EhKindsThrow : OnError(Root, k)
  \/ Add(Root, "gen", "none")
  \/ \E i \in 0..MaxRoutes : HandleCall(1, Root, i)
  \/ \E f \in DOMAIN frames[1] : NextEnter(1, f)
  \/ \E f \in DOMAIN frames[1] : ResumeValQ(1, f)
  \/ \E f \in DOMAIN frames[1] : ResumeValP(1, f)
  \/ \E f \in DOMAIN frames[1] : ResumeH(1, f)
  \/ \E f \in DOMAIN frames[1], script \in Scripts, fin \in Fins :
       ResumeHStream(1, f, script, fin)
  \/ \E f \in DOMAIN frames[1] : ResumeStream(1, f)
  \/ \E f \in DOMAIN frames[1] : ResumeTurnH(1, f)
  \/ \E f \in DOMAIN frames[1] : ResumeErrH(1, f)
  \/ \E f \in DOMAIN frames[1] : ResumeErr(1, f)
  \/ \E f \in DOMAIN frames[1] : ResumeRec(1, f)
  \/ HandleResume(1)
  \/ StreamFirst
  \/ StreamPull
  \/ StreamCatch
  \/ AbortEarly
  \/ Abort
  \/ AbortClose

SpecStreamApp == InitStreamApp /\ [][NextStreamApp]_vars

\* the stream of a route with one error handler, and the interval timer
InitPing ==
  /\ cfg = [mwKinds |-> {}, handlerKinds |-> {"gen"},
            ehKinds |-> {"none", "resp", "throw"},
            hookKinds |-> {"none"}, maxMw |-> 0, maxPar |-> 0, maxEh |-> MaxEh,
            maxApps |-> 1, maxReq |-> 1, maxRoutes |-> MaxRoutes, errors |-> {}]
  /\ InitApp

NextPing ==
  \/ NextStreamApp
  \/ Ping

SpecPing == InitPing /\ [][NextPing]_vars

\* requests with and without options.state, middlewares that write the state
InitState ==
  /\ cfg = [mwKinds |-> {"nextVoid", "pass"}, handlerKinds |-> {"value"},
            ehKinds |-> {}, hookKinds |-> {"none"},
            maxMw |-> MaxMw, maxPar |-> 0, maxEh |-> 0, maxApps |-> 1,
            maxReq |-> MaxReq, maxRoutes |-> MaxRoutes, errors |-> {}]
  /\ InitApp

NextState ==
  \/ \E k \in MwKinds : Use(Root, k)
  \/ Add(Root, "value", "none")
  \/ \E r \in Reqs, i \in 0..MaxRoutes : HandleCall(r, Root, i)
  \/ \E r \in Reqs, i \in 0..MaxRoutes : HandleState(r, Root, i)
  \/ \E r \in Reqs : \E f \in DOMAIN frames[r] : NextEnter(r, f)
  \/ \E r \in Reqs : \E f \in DOMAIN frames[r] : MwStart(r, f)
  \/ \E r \in Reqs : \E f \in DOMAIN frames[r] : MwResume(r, f)
  \/ \E r \in Reqs : \E f \in DOMAIN frames[r] : NextResumeMw(r, f)
  \/ \E r \in Reqs : \E f \in DOMAIN frames[r] : ResumeValQ(r, f)
  \/ \E r \in Reqs : \E f \in DOMAIN frames[r] : ResumeValP(r, f)
  \/ \E r \in Reqs : \E f \in DOMAIN frames[r] : ResumeH(r, f)
  \/ \E r \in Reqs : \E f \in DOMAIN frames[r] : ResumeTurnH(r, f)
  \/ \E r \in Reqs : \E f \in DOMAIN frames[r] : ResumeRec(r, f)
  \/ \E r \in Reqs : HandleResume(r)

SpecState == InitState /\ [][NextState]_vars

\* a tree of applications with middlewares and error handlers anywhere
InitOrder ==
  /\ cfg = [mwKinds |-> {"pass"}, handlerKinds |-> {"value"},
            ehKinds |-> {"none"}, hookKinds |-> {"none"},
            maxMw |-> MaxMw, maxPar |-> 0, maxEh |-> MaxEh + 1, maxApps |-> MaxApps,
            maxReq |-> 1, maxRoutes |-> MaxRoutes, errors |-> {}]
  /\ InitApp

NextOrder ==
  \/ \E parent \in Apps, sc \in {"true", "false", "undefined"} : UseApp(parent, sc)
  \/ \E app \in Apps : Use(app, "pass")
  \/ \E app \in Apps : OnError(app, "none")
  \/ \E app \in Apps : Add(app, "value", "none")
  \/ \E app \in Apps, i \in 0..MaxRoutes : HandleCall(1, app, i)

SpecOrder == InitOrder /\ [][NextOrder]_vars

\* ------------------------------------------------------------------ claims
\* the invocations of middlewares and of the route handler, in order
Calls(r) == SelectSeq(log[r], LAMBDA e : e.w \in {"mw", "handler"})
Times(r, w, i) == Count(log[r], Ev(w, i))
Chain_(r) == call[r].middlewares
ExpectedCalls(r) ==
  [i \in 1..(Len(Chain_(r)) + 1) |->
     IF i <= Len(Chain_(r)) THEN Ev("mw", i) ELSE Ev("handler", 0)]
IsPrefix(s, t) == Len(s) <= Len(t) /\ \A i \in 1..Len(s) : s[i] = t[i]
Started(r) == call[r].st # "idle"
Done(r) == call[r].st = "done"
Matched(r) == call[r].internalRoute.handler # "notFound"
\* every middleware of the chain returns a falsy value or awaits next()
NoShortCircuit(r) ==
  \A i \in 1..Len(Chain_(r)) :
    Chain_(r)[i].k \in {"pass", "retNext", "nextVoid", "nextOwn", "next2seq"}
ValidationFailed(r) ==
  \E f \in DOMAIN frames[r] : frames[r][f].err = ValidationError
Invoked(r, i) == Times(r, "mw", i) > 0
HandlerInvoked(r) == Times(r, "handler", 0) > 0

Exhausted(r) ==
  {f \in DOMAIN frames[r] : frames[r][f].mw = 0 /\ frames[r][f].out.st = "ok"}

\* C2: within one handle() call the route handler is invoked at most once
\* and no middleware more than once, however many next() calls the
\* middlewares make, one after the other or several at a time; the next()
\* calls made once the chain is exhausted all resolve to the same stored
\* response object
C2_AtMostOnce ==
  \A r \in Reqs :
    Matched(r) =>
      /\ Times(r, "handler", 0) <= 1
      /\ \A i \in 1..Len(Chain_(r)) : Times(r, "mw", i) <= 1
      /\ \A f, g \in Exhausted(r) : frames[r][f].out.v = frames[r][g].out.v

\* the same, for the calls whose middlewares await each next() before the
\* following one
C2_Sequential ==
  \A r \in Reqs :
    (\A i \in 1..Len(Chain_(r)) : Chain_(r)[i].k # "next2par") =>
      /\ Times(r, "handler", 0) <= 1
      /\ \A i \in 1..Len(Chain_(r)) : Times(r, "mw", i) <= 1
      /\ \A f, g \in Exhausted(r) : frames[r][f].out.v = frames[r][g].out.v

\* ------------------------------------------------------------------ short-circuits
Returned(r, f) == frames[r][f].mwOut.st = "ok"
Threw(r, f) == frames[r][f].mwOut.st = "err"
KindOf(r, f) == Chain_(r)[frames[r][f].mw].k
RanMw(r) == {f \in DOMAIN frames[r] : frames[r][f].mw # 0}
NoneAfter(r, i) ==
  /\ \A j \in (i + 1)..Len(Chain_(r)) : ~Invoked(r, j)
  /\ ~HandlerInvoked(r)

\* C4: once a middleware Mi has returned a response without calling next(),
\* no later middleware and no route handler is invoked in that handle()
\* call, the response is the stored handlerResponse right after, and the
\* next() invocation that ran Mi resolves to it
C4_ResponseStops ==
  \A r \in Reqs : \A f \in RanMw(r) :
    (Matched(r) /\ KindOf(r, f) = "resp" /\ Returned(r, f)) =>
      /\ NoneAfter(r, frames[r][f].mw)
      /\ frames[r][f].out.st = "ok" => frames[r][f].out.v = frames[r][f].mwOut.v

\* C5: once a middleware has returned a truthy value that is not a response,
\* no later middleware and no route handler is invoked in that handle()
\* call, whatever the outer middlewares do, and the next() invocation that
\* ran it resolves to the JSON conversion of the value
C5_ValueStops ==
  \A r \in Reqs : \A f \in RanMw(r) :
    (Matched(r) /\ KindOf(r, f) = "value" /\ Returned(r, f)) =>
      /\ NoneAfter(r, frames[r][f].mw)
      /\ frames[r][f].out.st = "ok" =>
           /\ isResponse(frames[r][f].out.v)
           /\ responses[r][frames[r][f].out.v.n].by = "json"
           /\ responses[r][frames[r][f].out.v.n].x = frames[r][f].mwOut.v.n

\* C6: a middleware that awaited next(), received the response X and returned
\* nothing: the next() invocation that ran it resolves to the same object X
C6_SameObject ==
  \A r \in Reqs : \A f \in RanMw(r) :
    (/\ KindOf(r, f) = "nextVoid"
     /\ Returned(r, f)
     /\ frames[r][f].out.st = "ok") =>
      frames[r][f].out.v = frames[r][frames[r][f].kid1].out.v

C8_FalsyContinues ==
  \A r \in Reqs : \A f \in RanMw(r) :
    (Done(r) /\ Matched(r) /\ KindOf(r, f) = "pass") =>
      IF frames[r][f].mw < Len(Chain_(r))
      THEN Invoked(r, frames[r][f].mw + 1)
      ELSE ValidationFailed(r) \/ HandlerInvoked(r)

\* C10: a response thrown by a middleware or by the route handler: no onError
\* handler is invoked for it, and no middleware that had not started and no
\* route handler is invoked afterwards
C10_ThrownResponseStops ==
  \A r \in Reqs :
    /\ \A f \in RanMw(r) :
         (Matched(r) /\ KindOf(r, f) = "throwResp" /\ Threw(r, f)) =>
           NoneAfter(r, frames[r][f].mw)
    /\ (\A f \in DOMAIN frames[r] : frames[r][f].caught => isResponse(frames[r][f].err))
         => \A e \in Range(log[r]) : e.w # "onError"

\* ------------------------------------------------------------------ isolation
HandlerResponses(r) ==
  {i \in 1..Len(responses[r]) : responses[r][i].by \in {"json", "handler"}}
MwCalls(r) == SelectSeq(log[r], LAMBDA e : e.w = "mw")

\* C3: handle() calls in flight together, without options.state: the
\* defaultState of the application never changes, the state a call's
\* handler reads holds the initial value or what this call's middlewares
\* wrote, never another call's value, and each call walks its own chain
\* with its own index
C3_Isolation ==
  /\ \A a \in Apps, k \in {"top", "nested"} : heap[AppObj(a, k)].x = InitialX
  /\ \A r \in Reqs :
       Started(r) =>
         /\ \A k \in {"top", "nested"} : heap[ReqObj(r, k)].x \in {InitialX, r}
         /\ \A i \in HandlerResponses(r) :
              /\ responses[r][i].x = (IF Len(Chain_(r)) = 0 THEN InitialX ELSE r)
              /\ responses[r][i].nx = responses[r][i].x
         /\ call[r].index = Len(MwCalls(r))
         /\ \A i \in 1..Len(MwCalls(r)) : MwCalls(r)[i] = Ev("mw", i)
         /\ isResponse(call[r].handlerResponse) =>
              call[r].handlerResponse.n \in 1..Len(responses[r])

\* two calls are suspended together, each has written its state, and the
\* first one's handler reads the state afterwards
C3_Witness ==
  /\ \A r \in {1, 2} :
       /\ Matched(r)
       /\ Len(Chain_(r)) >= 1
       /\ heap[ReqObj(r, "nested")].x = r
  /\ call[1].st = "running"
  /\ call[2].st = "running"
  /\ \E f \in DOMAIN frames[2] : frames[2][f].mwpc = "await1"
  /\ HandlerResponses(1) # {}

\* ------------------------------------------------------------------ errors
RECURSIVE Descendants(_, _)
Descendants(ch, a) ==
  {a} \cup UNION {Descendants(ch, c) : c \in Range(ch[a])}

\* the applications whose handlers apply to a route of application app: the
\* application, its ancestors, and every application with scoped: false
ScopeOf(app) ==
  SelectSeq(bfs(childrenApps, Root),
            LAMBDA a : app \in Descendants(childrenApps, a) \/ scoped[a] = "false")

ExpectedHandlers(r) == flatMap(ScopeOf(call[r].app), onErrorHandlers)

FirstResponse(hs) ==
  IF \E i \in 1..Len(hs) : hs[i].k = "resp"
  THEN CHOOSE i \in 1..Len(hs) :
         hs[i].k = "resp" /\ \A j \in 1..(i - 1) : hs[j].k # "resp"
  ELSE 0

Resolution(r) ==
  {f \in DOMAIN frames[r] :
     /\ frames[r][f].caught
     /\ ~isResponse(frames[r][f].err)
     /\ frames[r][f].pc \in {"awaitErr", "awaitRec", "done"}}

C11_NeverRejects ==
  \A r \in Reqs : call[r].st # "rejected"

\* every middleware of the chain hands on what next() gave it
PassThrough(r) ==
  \A i \in 1..Len(Chain_(r)) :
    Chain_(r)[i].k \in {"pass", "retNext", "nextVoid", "next2seq"}
OnErrorCalls(r) == SelectSeq(log[r], LAMBDA e : e.w = "onError")
IsNotFound(r, v) ==
  /\ isResponse(v)
  /\ responses[r][v.n].by = "notFound"
  /\ responses[r][v.n].status = NotFoundStatus
  /\ responses[r][v.n].msg = "Not Found"

\* C12 (as stated): a request that matches no route yields the 404
\* "Not Found" response and no onError handler is invoked
C12_AsStated ==
  \A r \in Reqs :
    (Done(r) /\ ~Matched(r)) =>
      IsNotFound(r, call[r].response) /\ OnErrorCalls(r) = <<>>

\* C12 (amended): the same when every middleware in scope hands on what
\* next() gave it; the synthesized handler then runs once, as a route
\* handler does, and no onError handler is invoked
C12_NotFound ==
  \A r \in Reqs :
    (Started(r) /\ ~Matched(r) /\ PassThrough(r)) =>
      /\ OnErrorCalls(r) = <<>>
      /\ Done(r) =>
           /\ IsNotFound(r, call[r].response)
           /\ Times(r, "handler", 0) = 1

C12_Witness ==
  \E r \in Reqs :
    /\ Done(r) /\ ~Matched(r) /\ PassThrough(r)
    /\ Len(Chain_(r)) >= 1
    /\ \E i \in 1..Len(call[r].onErrorHandlers) :
         call[r].onErrorHandlers[i].k = "resp"
    /\ IsNotFound(r, call[r].response)

\* the next() invocations in which a validator reported issues and the
\* error response has been produced
ValidationCaught(r) ==
  {f \in DOMAIN frames[r] :
     /\ frames[r][f].err = ValidationError
     /\ frames[r][f].pc \in {"awaitErr", "awaitRec", "done"}
     /\ frames[r][f].tmp.st = "ok"}

IsValidationResponse(r, v) ==
  /\ isResponse(v)
  /\ LET n == FirstResponse(call[r].onErrorHandlers)
         res == responses[r][v.n]
     IN IF n # 0 THEN res.by = "onError" /\ res.src = n
        ELSE res.by = "error" /\ res.status = ValidationStatus

Tree == Range(bfs(childrenApps, Root))
InChain(r, a, j) ==
  Cardinality({i \in 1..Len(Chain_(r)) :
                 Chain_(r)[i].app = a /\ Chain_(r)[i].pos = j})
Owns(a, b) == b \in Descendants(childrenApps, a)

\* C14: for a matched route, a middleware of an application with
\* scoped: false is in the dispatch chain wherever the application and the
\* route are in the tree, and a middleware of an application with scoped
\* true or unset is in the chain exactly when the route is owned by the
\* application or by one of its descendants; the middlewares in the chain,
\* and no others, are invoked
C14_MiddlewareScope ==
  \A r \in Reqs :
    (Started(r) /\ Matched(r)) =>
      /\ \A a \in Tree : \A j \in 1..Len(middlewares[a]) :
           InChain(r, a, j) =
             (IF scoped[a] = "false" \/ Owns(a, call[r].app) THEN 1 ELSE 0)
      /\ \A i \in 1..Len(Chain_(r)) :
           /\ Chain_(r)[i].app \in Tree
           /\ Chain_(r)[i].pos \in 1..Len(middlewares[Chain_(r)[i].app])
      /\ Done(r) => Calls(r) = ExpectedCalls(r)

\* a route of the root application: the middleware of a scoped: false
\* application two levels down is in its chain, the middleware of the
\* scoped application in between is not
C14_Witness ==
  \E r \in Reqs : \E a, b \in Tree :
    /\ Done(r) /\ Matched(r)
    /\ call[r].app = Root
    /\ Includes(childrenApps[Root], a) /\ Includes(childrenApps[a], b)
    /\ scoped[a] = "true" /\ scoped[b] = "false"
    /\ Len(middlewares[a]) = 1 /\ Len(middlewares[b]) = 1
    /\ InChain(r, a, 1) = 0 /\ InChain(r, b, 1) = 1
    /\ Times(r, "mw", 1) = 1

\* the base paths from the root down to application app, concatenated
Lineage(app) == SelectSeq(bfs(childrenApps, Root), LAMBDA a : Owns(a, app))
FullPrefix(app) == Flatten([i \in 1..Len(Lineage(app)) |-> prefix[Lineage(app)[i]]])
\* the routes whose prefixed path is the path, for the method
RoutesAt(method, path) ==
  {ai \in Tree \X (1..(MaxRoutes + 2)) :
     /\ ai[2] <= Len(routes[ai[1]])
     /\ routes[ai[1]][ai[2]].method = method
     /\ FullPrefix(ai[1]) \o routes[ai[1]][ai[2]].path = path}
FinalStatus(r) == responses[r][call[r].response.n].status

\* C15: a request is matched by a route exactly when its path is the base
\* paths of the applications from the root down to the route's owner,
\* concatenated, followed by the route's path (an application without base
\* path adding nothing); it is then dispatched to such a route, and to
\* the not-found handler otherwise
C15_PrefixCompose ==
  \A r \in Reqs :
    Started(r) =>
      /\ Matched(r) <=> RoutesAt(call[r].method, call[r].path) # {}
      /\ Matched(r) =>
           \E ai \in RoutesAt(call[r].method, call[r].path) :
             /\ call[r].app = ai[1]
             /\ call[r].internalRoute = routes[ai[1]][ai[2]]
      /\ Done(r) => FinalStatus(r) = IF Matched(r) THEN OkStatus ELSE NotFoundStatus

\* route /c of an application with base path /b mounted in the root with
\* base path /a, answered for /a/b/c; an application without base path in
\* between is witnessed by C15_WitnessNoBase
C15_Witness ==
  \E r \in Reqs : \E a \in Tree :
    /\ Done(r) /\ Matched(r)
    /\ prefix[Root] = PA /\ prefix[a] = PB /\ Includes(childrenApps[Root], a)
    /\ call[r].app = a /\ call[r].path = PA \o PB \o PC
    /\ FinalStatus(r) = OkStatus

FinalResponse(r) == responses[r][call[r].response.n]
\* status and content type of the response a GET request gets from a route
\* whose handler is of kind k
GetStatus(k) == IF k = "respOwn" THEN OwnStatus ELSE OkStatus
GetType(k) == CASE k = "value" -> "application/json"
                [] k = "respOwn" -> "text/html"
                [] OTHER -> ""

\* C16: a HEAD request for a path with no HEAD route is answered, when a GET
\* route has that path, by invoking the GET handler exactly once and
\* returning the status and the headers of the GET route's response with an
\* empty body, whether the handler returns a response or a plain value, and
\* with 404 when no GET route has that path
C16_HeadFallback ==
  \A r \in Reqs :
    (Done(r) /\ call[r].method = "HEAD" /\ RoutesAt("HEAD", call[r].path) = {}) =>
      IF RoutesAt("GET", call[r].path) = {}
      THEN FinalStatus(r) = NotFoundStatus /\ Times(r, "get", 0) = 0
      ELSE \E ai \in RoutesAt("GET", call[r].path) :
             LET k == routes[ai[1]][ai[2]].handler
             IN /\ call[r].app = ai[1]
                /\ Times(r, "get", 0) = 1
                /\ FinalResponse(r).body = ""
                /\ FinalResponse(r).status = GetStatus(k)
                /\ FinalResponse(r).ctype = GetType(k)

\* the path of a request without its query string and without one trailing
\* slash
PathOnly(path) == stripTrailingSlash(beforeQuery(path))

\* C17: a route registered as P or as P followed by a slash is the route
\* of a request for P and of a request for P followed by a slash, with or
\* without a query string after the path, and of no other request
C17_TrailingSlash ==
  \A r \in Reqs :
    Started(r) =>
      /\ Matched(r) <=> RoutesAt(call[r].method, PathOnly(call[r].path)) # {}
      /\ Matched(r) =>
           \E ai \in RoutesAt(call[r].method, PathOnly(call[r].path)) :
             call[r].internalRoute = routes[ai[1]][ai[2]]

\* the message frames of a sequence of frames
Messages(out) == SelectSeq(out, LAMBDA f : f.ev = "message")
\* one message frame for each non-empty value the producer yields, in order
Yielded(script) ==
  SelectSeq([i \in 1..Len(script) |-> Frame("message", i, script[i])],
            LAMBDA f : f.v \notin {"null", "undefined"})
StreamOver == stream.pc \in {"immediate", "done", "failed", "rejected"}

\* C18: when a producer that yields v1..vn (n >= 1) and then finishes has
\* been read to its end, with no abort, the chunked response holds exactly
\* one message frame for each vi that is neither null nor undefined, in
\* yield order, none for a null or undefined vi, and the stream is closed
C18_MessagePerValue ==
  (stream.pc = "done" /\ Len(stream.script) >= 1 /\ stream.fin # "throw"
     /\ ~stream.end) =>
    /\ stream.chunked
    /\ stream.out = Yielded(stream.script)
    /\ stream.closed

\* a producer yielding a value, null, undefined and nothing else, read to
\* its end: one frame
C18_Witness ==
  /\ stream.pc = "done" /\ ~stream.end /\ stream.fin # "throw"
  /\ \E i, j \in 1..Len(stream.script) :
       i < j /\ stream.script[i] = "null" /\ stream.script[j] = "v"
  /\ Len(stream.out) = Len(stream.script) - 1
  /\ stream.closed

\* C19: the immediate, non-chunked response of one message frame and the
\* done sentinel is produced exactly when the producer is finished after the
\* first pull with a finishing value that is neither null nor undefined;
\* otherwise a chunked stream is opened, and no message frame carries null
\* or undefined (for a producer whose first pull does not throw)
C19_ImmediateIff ==
  (StreamOver /\ stream.pc # "rejected") =>
    /\ stream.pc = "immediate" <=>
         (Len(stream.script) = 0 /\ stream.fin \notin {"throw", "null", "undefined"})
    /\ stream.pc # "immediate" => stream.chunked
    /\ \A i \in 1..Len(stream.out) :
         stream.out[i].ev = "message" => stream.out[i].v \notin {"null", "undefined"}

\* C20: once the abort signal has fired on an open stream, no message frame
\* is enqueued any more, whatever the producer yields, and no close of the
\* stream lets an exception escape
C20_AbortStops ==
  [][stream.end =>
       /\ Messages(stream'.out) = Messages(stream.out)
       /\ stream'.escaped # "close"]_vars

\* the producer yielded a non-empty value after the abort, and the stream
\* was closed by the listener and by the loop
C20_Witness ==
  /\ stream.end /\ stream.pc = "done" /\ stream.abortpc = "done" /\ stream.closed
  /\ stream.pos >= 2 /\ stream.script[stream.pos] = "v"
  /\ \A i \in 1..Len(stream.out) : stream.out[i].k # stream.pos

Released ==
  stream.end /\ ~stream.interval /\ stream.returned /\ stream.closed

\* C21: whenever the abort signal has fired for a request answered with a
\* chunked stream, also when it fired before start() registered the
\* listener, eventually the stream is marked finished, the interval is
\* cleared, the producer has been sent return() and the stream is closed
C21_AbortReleases == (stream.aborted /\ stream.chunked) ~> Released

\* the error handlers called for request r, in call order
HandlersRun(r) == SelectSeq(log[r], LAMBDA e : e.w = "onError")
\* the handlers to run: in order, up to the first that returns a response
ToRun(r) ==
  LET hs == call[r].onErrorHandlers
      firstResp == {i \in 1..Len(hs) : hs[i].k = "resp"
                                        /\ \A j \in 1..(i - 1) : hs[j].k # "resp"}
      last == IF firstResp = {} THEN Len(hs) ELSE CHOOSE i \in firstResp : TRUE
  IN [i \in 1..last |-> Ev("onError", i)]
StreamResponses(r) ==
  {i \in 1..Len(responses[r]) : responses[r][i].by = "stream"}

\* C22: once a producer has thrown after the chunked stream was opened and
\* the failure has been dealt with, the error handlers in scope were run,
\* the frames are the message frames emitted before followed by exactly one
\* error frame, the stream is closed and the response still has its status
\* and content type
C22_ErrorFrame ==
  \A r \in Reqs :
    (stream.r = r /\ stream.caught /\ stream.pc # "catch") =>
      /\ HandlersRun(r) = ToRun(r)
      /\ Len(stream.out) >= 1
      /\ stream.out[Len(stream.out)].ev = "error"
      /\ \A i \in 1..(Len(stream.out) - 1) : stream.out[i].ev = "message"
      /\ stream.closed
      /\ \A i \in StreamResponses(r) :
           /\ responses[r][i].status = OkStatus
           /\ responses[r][i].ctype = "text/event-stream"

\* the first error handler of the list that returns a response or throws
\* (0: none)
FirstAnswer(hs) ==
  IF \E i \in 1..Len(hs) : hs[i].k \in {"resp", "throw"}
  THEN CHOOSE i \in 1..Len(hs) :
         hs[i].k \in {"resp", "throw"}
           /\ \A j \in 1..(i - 1) : hs[j].k \notin {"resp", "throw"}
  ELSE 0

C24_StateOverride ==
  \A r \in Reqs :
    (Started(r) /\ call[r].customState # NoObj) =>
      /\ call[r].state = call[r].customState
      /\ \A k \in {"top", "nested"} :
           /\ heap[CustomObj(r, k)].x \in {CustomX, r}
           /\ heap[ReqObj(r, k)].x = InitialX
      /\ \A a \in Apps, k \in {"top", "nested"} : heap[AppObj(a, k)].x = InitialX
      /\ \A i \in HandlerResponses(r) :
           responses[r][i].x = heap[CustomObj(r, "top")].x

\* the handler read the supplied value, and in another call with a
\* middleware the value the middleware wrote into the supplied object
C24_Witness ==
  \E r \in Reqs :
    /\ Done(r) /\ Matched(r) /\ call[r].customState # NoObj
    /\ Len(Chain_(r)) >= 1
    /\ heap[CustomObj(r, "top")].x = r
    /\ \E i \in HandlerResponses(r) : responses[r][i].x = r

\* the position of an application in the breadth-first order of the tree
BfsPos(a) ==
  CHOOSE i \in 1..Len(bfs(childrenApps, Root)) : bfs(childrenApps, Root)[i] = a
\* the list holds, once each, the entries of field of the applications in
\* scope of application app, by breadth-first position of the application
\* and then by registration order
InTreeOrder(list, field, app) ==
  /\ \A i, j \in 1..Len(list) :
       i < j => \/ BfsPos(list[i].app) < BfsPos(list[j].app)
                \/ list[i].app = list[j].app /\ list[i].pos < list[j].pos
  /\ \A i \in 1..Len(list) : list[i].k = field[list[i].app][list[i].pos]
  /\ {<<list[i].app, list[i].pos>> : i \in 1..Len(list)} =
       {ap \in Tree \X (1..(MaxMw + MaxEh + 2)) :
          /\ ap[2] <= Len(field[ap[1]])
          /\ scoped[ap[1]] = "false" \/ Owns(ap[1], app)}

\* C25: the dispatch chain of a matched route lists the middlewares of
\* the applications in scope in the tree's breadth-first order, each
\* application's middlewares in registration order, and the error-handler
\* list is assembled in the same order
C25_ChainOrder ==
  \A r \in Reqs :
    (Started(r) /\ Matched(r)) =>
      /\ InTreeOrder(call[r].middlewares, middlewares, call[r].app)
      /\ InTreeOrder(call[r].onErrorHandlers, onErrorHandlers, call[r].app)

\* a route in the second application mounted on the root: the chain and
\* the error handlers list the unscoped sibling mounted first, then the
\* route's own application
C25_Witness ==
  \E r \in Reqs : \E a, b \in Tree :
    /\ Started(r) /\ Matched(r) /\ call[r].app = b
    /\ childrenApps[Root] = <<a, b>>
    /\ scoped[a] = "false"
    /\ Len(call[r].middlewares) = 2 /\ Len(call[r].onErrorHandlers) = 2
    /\ call[r].middlewares[1].app = a /\ call[r].middlewares[2].app = b
    /\ call[r].onErrorHandlers[1].app = a /\ call[r].onErrorHandlers[2].app = b

\* the routes an application has for the method and the path, with its
\* prefix from the root down
RoutesOf(a, method, path) ==
  {i \in 1..Len(routes[a]) :
     /\ routes[a][i].method = method
     /\ segMatch(FullPrefix(a) \o routes[a][i].path, path)}
Candidates(method, path) == {a \in Tree : RoutesOf(a, method, path) # {}}

\* C26: when several applications of the tree have a route for the
\* requested method and path, match returns the route of the application
\* that comes first in breadth-first order: a shallower application wins
\* over a deeper one, even if the deeper one's route is more specific, and
\* an earlier-mounted sibling wins over a later one
C26_FirstInBfsWins ==
  \A r \in Reqs :
    (Started(r) /\ Candidates(call[r].method, call[r].path) # {}) =>
      /\ Matched(r)
      /\ call[r].app \in Candidates(call[r].method, call[r].path)
      /\ \A b \in Candidates(call[r].method, call[r].path) :
           BfsPos(call[r].app) <= BfsPos(b)
      /\ \E i \in RoutesOf(call[r].app, call[r].method, call[r].path) :
           call[r].internalRoute = routes[call[r].app][i]
      /\ Done(r) => FinalStatus(r) = OkStatus

\* the parameter route of an application answers although an application
\* below it has a static route for the very path
C26_Witness ==
  \E r \in Reqs : \E b \in Tree :
    /\ Done(r) /\ Matched(r)
    /\ b # call[r].app /\ Owns(call[r].app, b)
    /\ call[r].internalRoute.path = PP
    /\ \E i \in 1..Len(routes[b]) :
         routes[b][i].method = call[r].method
           /\ FullPrefix(b) \o routes[b][i].path = call[r].path

\* of two applications mounted side by side with routes for the path, the
\* one mounted first answers
C26_WitnessSibling ==
  \E r \in Reqs : \E b \in Tree :
    /\ Done(r) /\ Matched(r)
    /\ b # call[r].app /\ ~Owns(call[r].app, b) /\ ~Owns(b, call[r].app)
    /\ b \in Candidates(call[r].method, call[r].path)

\* the next() invocations whose middleware threw an error that is not a
\* response
ErrThrown(r) ==
  {f \in RanMw(r) : KindOf(r, f) \in {"throwErr", "nextThrow"} /\ Threw(r, f)}
IsErrorResponse(r, v) ==
  isResponse(v) /\ responses[r][v.n].by \in {"error", "onError"}
OwnResponses(r) ==
  {frames[r][g].mwOut.v : g \in {h \in RanMw(r) : Returned(r, h)}}

\* C27: once a middleware has thrown a non-response error, the route
\* handler is never invoked in that handle() call, handle() does not
\* reject, every middleware that awaited next() has received a response
\* when handle() returns, and handle() returns the error response unless a
\* middleware returned a response of its own
C27_MiddlewareThrows ==
  \A r \in Reqs :
    ErrThrown(r) # {} =>
      /\ ~HandlerInvoked(r)
      /\ call[r].st # "rejected"
      /\ Done(r) =>
           /\ \A g \in RanMw(r) :
                frames[r][g].kid1 # 0 =>
                  /\ frames[r][frames[r][g].kid1].out.st = "ok"
                  /\ isResponse(frames[r][frames[r][g].kid1].out.v)
           /\ \/ IsErrorResponse(r, call[r].response)
              \/ call[r].response \in OwnResponses(r)

\* a middleware has answered without calling next() or has thrown
StoppedEarly(r) ==
  \E f \in RanMw(r) :
    /\ KindOf(r, f) \in {"resp", "value", "throwErr", "throwResp"}
    /\ frames[r][f].mwOut.st # "pending"
Validated(r) ==
  Times(r, "validateQuery", 0) + Times(r, "validateParams", 0) > 0
\* the log entry at position p is the one expected just before a handler
\* invocation (w = "handler") or a params validation
Precedes(r, p, w) ==
  LET route == call[r].internalRoute
      before == IF w = "handler" /\ hasValidateParams(route)
                THEN "validateParams"
                ELSE IF hasValidateQuery(route) THEN "validateQuery" ELSE "mw"
  IN IF before = "mw" THEN p = 0 \/ log[r][p].w = "mw"
     ELSE p > 0 /\ log[r][p].w = before

\* C28: the query and params validators run at most once per handle()
\* call, after every middleware of the chain has been entered, query
\* then params then the handler with nothing in between; they do not run
\* when a middleware answered without calling next() or threw; the handler
\* sees the validated query and params
C28_ValidatorsOnce ==
  \A r \in Reqs :
    /\ Times(r, "validateQuery", 0) <= 1
    /\ Times(r, "validateParams", 0) <= 1
    /\ Validated(r) => \A i \in 1..Len(Chain_(r)) : Invoked(r, i)
    /\ StoppedEarly(r) => ~Validated(r)
    /\ \A p \in 1..Len(log[r]) :
         /\ log[r][p].w = "handler" => Precedes(r, p - 1, "handler")
         /\ log[r][p].w = "validateParams" => Precedes(r, p - 1, "validateParams")
         /\ log[r][p].w \in {"validateQuery", "validateParams"} =>
              \A q \in (p + 1)..Len(log[r]) : log[r][q].w # "mw"
    /\ HandlerInvoked(r) =>
         /\ hasValidateQuery(call[r].internalRoute) => call[r].query = "validated"
         /\ hasValidateParams(call[r].internalRoute) => call[r].params = "validated"

BodyReads(r) == Times(r, "json", 0)
BodyChecks(r) == Times(r, "validateBody", 0)

C29_WitnessUnread ==
  \E r \in Reqs :
    /\ Done(r) /\ hasValidateBody(call[r].internalRoute)
    /\ call[r].body = "invalid" /\ BodyReads(r) = 0
    /\ FinalStatus(r) = OkStatus

\* the path of the request has routes, none of them for the request's
\* method, and the request is not a HEAD request for a path with a GET route
OtherMethodsOnly(r) ==
  /\ RoutesAt(call[r].method, call[r].path) = {}
  /\ \E m \in {"GET", "HEAD", "POST"} : RoutesAt(m, call[r].path) # {}
  /\ ~(call[r].method = "HEAD" /\ RoutesAt("GET", call[r].path) # {})

\* C30 (as stated): a request whose path is registered only for other
\* methods gets the synthesized 404 "Not Found" response, no handler
\* registered for the other methods is invoked and no error handler is
\* invoked
C30_AsStated ==
  \A r \in Reqs :
    (Started(r) /\ OtherMethodsOnly(r)) =>
      /\ ~Matched(r)
      /\ Times(r, "get", 0) = 0
      /\ OnErrorCalls(r) = <<>>
      /\ Done(r) => IsNotFound(r, call[r].response)

\* C30 (amended): such a request is dispatched to the synthesized
\* not-found handler and to no registered handler; when every middleware
\* in scope hands on what next() gave it, handle() returns the 404
\* "Not Found" response and no error handler is invoked
C30_MethodMismatch ==
  \A r \in Reqs :
    (Started(r) /\ OtherMethodsOnly(r)) =>
      /\ ~Matched(r)
      /\ Times(r, "get", 0) = 0
      /\ PassThrough(r) =>
           /\ OnErrorCalls(r) = <<>>
           /\ Done(r) =>
                /\ IsNotFound(r, call[r].response)
                /\ FinalStatus(r) = NotFoundStatus
                /\ Times(r, "handler", 0) = 1

\* a POST request for the path of a GET route of a mounted application,
\* behind a middleware, with an error handler registered
C30_Witness ==
  \E r \in Reqs :
    /\ Done(r) /\ OtherMethodsOnly(r) /\ PassThrough(r)
    /\ call[r].method = "POST"
    /\ RoutesAt("GET", call[r].path) # {}
    /\ Len(Chain_(r)) >= 1
    /\ Len(call[r].onErrorHandlers) >= 1
    /\ IsNotFound(r, call[r].response)

\* the applications whose prefix from the root begins the path and whose
\* router has no entry for the rest of the path
Fallbacks(path) ==
  {a \in Tree :
     /\ startsWith(normalizePath(path), stripTrailingSlash(FullPrefix(a)))
     /\ \A i \in 1..Len(routes[a]) :
          ~segMatch(stripTrailingSlash(FullPrefix(a)) \o routes[a][i].path,
                    normalizePath(path))}
LastInBfs(S) == CHOOSE a \in S : \A b \in S : BfsPos(b) <= BfsPos(a)

\* C31: when no route matches, the application match returns is the root,
\* unless some application's prefix begins the request path and its router
\* has no entry for the rest of the path, in which case it is the last such
\* application in breadth-first order; the root's middlewares are in the
\* chain in every case
C31_ClosestApp ==
  \A r \in Reqs :
    (Started(r) /\ ~Matched(r)) =>
      /\ call[r].app = IF Fallbacks(call[r].path) = {} THEN Root
                       ELSE LastInBfs(Fallbacks(call[r].path))
      /\ \A j \in 1..Len(middlewares[Root]) :
           \E i \in 1..Len(Chain_(r)) :
             Chain_(r)[i].app = Root /\ Chain_(r)[i].pos = j

\* an unmatched request given to a mounted application although the root
\* has no entry for the path either, the root's middleware in the chain
C31_Witness ==
  \E r \in Reqs :
    /\ Done(r) /\ ~Matched(r)
    /\ call[r].app # Root
    /\ Root \in Fallbacks(call[r].path)
    /\ Len(middlewares[Root]) >= 1
    /\ Chain_(r)[1].app = Root

\* an unmatched request given to the root because the only application
\* without an entry for the path is the root; the mounted one has the path
\* for another method
C31_WitnessRoot ==
  \E r \in Reqs :
    /\ Done(r) /\ ~Matched(r)
    /\ call[r].app = Root /\ napps >= 2
    /\ Fallbacks(call[r].path) = {Root}

\* the registrations of an application for the method and the path
Registered(a, method, path) ==
  {i \in 1..Len(routes[a]) :
     routes[a][i].method = method /\ routes[a][i].path = normalizePath(path)}
Newest(S) == CHOOSE i \in S : \A j \in S : j <= i
\* every dispatch uses the newest registration of its path and method
NewestDispatched ==
  \A r \in Reqs :
    Started(r) =>
      IF Registered(Root, call[r].method, call[r].path) = {} THEN ~Matched(r)
      ELSE LET newest == routes[Root][Newest(Registered(Root, call[r].method,
                                                        call[r].path))]
           IN /\ call[r].internalRoute = newest
              /\ Done(r) =>
                   /\ Times(r, "handler", 0) = 1
                   /\ FinalResponse(r).status = GetStatus(newest.handler)
                   /\ FinalResponse(r).ctype = GetType(newest.handler)

\* C32: registering a route for a path and method already registered on
\* the application makes every later dispatch of that pair use the newest
\* handler only; routes only grows, keeping both entries, and the dispatch
\* of other paths or methods is that of their own newest registration
C32_NewestWins ==
  [][/\ \A a \in Apps : IsPrefix(routes[a], routes'[a])
     /\ NewestDispatched']_vars

\* GET /c registered twice, the second time as /c/ with another handler,
\* next to a POST route: the request is answered by the second handler
C32_Witness ==
  \E r \in Reqs :
    /\ Done(r) /\ call[r].method = "GET"
    /\ Len(routes[Root]) = 3
    /\ Registered(Root, "GET", call[r].path) = {1, 3}
    /\ routes[Root][2].method = "POST"
    /\ routes[Root][1].handler = "value" /\ routes[Root][3].handler = "respOwn"
    /\ FinalStatus(r) = OwnStatus

\* the value of kind k cannot be converted under the declared type
Unconvertible(type, k) ==
  \/ type = "text/plain" /\ k \notin {"string", "resp"}
  \/ type = "application/x-www-form-urlencoded" /\ k \notin {"params", "resp"}
  \/ type = "multipart/form-data" /\ k # "resp"
\* the content type of the converted value
ConvertedType(type, k) ==
  IF type = "text/plain" /\ k = "string" THEN "text/plain"
  ELSE IF type = "application/x-www-form-urlencoded" /\ k = "params"
  THEN "application/x-www-form-urlencoded"
  ELSE "application/json"
\* what handle() returned for a handler result of kind k, the converted
\* value having content type ctype
Converted(r, k, ctype) ==
  LET type == call[r].internalRoute.type
  IN /\ Times(r, "handler", 0) = 1
     /\ IF k = "resp"
        THEN FinalResponse(r).by = "handler" /\ call[r].response = RespRef(1)
        ELSE IF Unconvertible(type, k)
        THEN /\ IsErrorResponse(r, call[r].response)
             /\ FinalResponse(r).by = "error" =>
                  FinalResponse(r).status = DefaultErrorStatus
        ELSE /\ FinalResponse(r).status = OkStatus
             /\ FinalResponse(r).ctype = ctype

\* C33 (as stated): a response passes through as the same object, a value
\* the declared type does not admit becomes an error response without a
\* second invocation of the handler, and every other value is returned as
\* an application/json response
C33_AsStated ==
  \A r \in Reqs :
    (Done(r) /\ Matched(r)) =>
      Converted(r, call[r].internalRoute.handler, "application/json")

\* C33 (amended): the same, except that a string under text/plain and
\* URL-encoded parameters under application/x-www-form-urlencoded are
\* returned with the declared content type
C33_Conversion ==
  \A r \in Reqs :
    (Done(r) /\ Matched(r)) =>
      Converted(r, call[r].internalRoute.handler,
                ConvertedType(call[r].internalRoute.type,
                              call[r].internalRoute.handler))

\* a plain object returned under text/plain: status 500, handler invoked once
C33_Witness ==
  \E r \in Reqs :
    /\ Done(r) /\ Matched(r)
    /\ call[r].internalRoute.type = "text/plain"
    /\ call[r].internalRoute.handler = "value"
    /\ FinalResponse(r).by = "error"
    /\ FinalStatus(r) = DefaultErrorStatus
    /\ Times(r, "handler", 0) = 1

\* URL-encoded parameters returned under their declared type
C33_WitnessTyped ==
  \E r \in Reqs :
    /\ Done(r) /\ Matched(r)
    /\ call[r].internalRoute.handler = "params"
    /\ FinalResponse(r).ctype = "application/x-www-form-urlencoded"

\* the values of a key in the order of their occurrence in the query string
ValuesOf(queryString, key) ==
  LET params == URLSearchParams(queryString)
      mine == SelectSeq(params, LAMBDA p : p.key = key)
  IN [i \in 1..Len(mine) |-> mine[i].value]
KeysOf(queryString) ==
  {URLSearchParams(queryString)[i].key :
     i \in 1..Len(URLSearchParams(queryString))}

\* C34: parseQuery maps every key that occurs once to its string value and
\* every key that occurs n >= 2 times to the list of its n values in order
\* of occurrence, the empty string included
C34_QueryLists ==
  parsing.called =>
    /\ DOMAIN parsing.query = KeysOf(parsing.queryString)
    /\ \A key \in KeysOf(parsing.queryString) :
         LET values == ValuesOf(parsing.queryString, key)
         IN parsing.query[key] =
              IF Len(values) = 1 THEN StringOf(values[1]) ELSE ListOf(values)

Pings(out) == SelectSeq(out, LAMBDA f : f.ev = "ping")
\* the stream has ended: the loop is over, or the abort listener has run
StreamEnded == stream.pc \in {"done", "failed"} \/ stream.abortpc # "none"

\* C35: a keep-alive ping is enqueued only while the stream is open and not
\* finished, and on every way a chunked stream ends (the producer
\* completes, the producer throws mid-stream, the client aborts) the
\* interval timer is cleared
C35_PingWhileOpen ==
  /\ [](StreamEnded => ~stream.interval)
  /\ [][Pings(stream'.out) # Pings(stream.out) =>
          ~stream.closed /\ ~stream.end /\ ~StreamEnded]_vars

\* C36: once the abort handler has run for a stream, no frame of any kind is
\* enqueued to the stream controller and no error handler is invoked for
\* that stream, under every interleaving of the abort handler with the
\* pull loop
C36_AbortSilences ==
  [][stream.abortpc # "none" =>
       /\ stream'.out = stream.out
       /\ \A r \in Reqs : HandlersRun(r)' = HandlersRun(r)]_vars

\* C37: a producer that yielded at least once is answered by the chunked
\* stream, in which no frame carries its finishing value and no done
\* sentinel is written: the message frames are those of the yielded
\* non-empty values, all of them once the producer has been read to its end
C37_NoFinalValue ==
  (Len(stream.script) >= 1 /\ stream.pc \notin {"idle", "first"}) =>
    /\ stream.chunked
    /\ \A i \in 1..Len(stream.out) :
         /\ stream.out[i].ev \in {"message", "error"}
         /\ stream.out[i].ev = "message" => stream.out[i].k >= 1
    /\ IsPrefix(Messages(stream.out), Yielded(stream.script))
    /\ (stream.pc = "done" /\ ~stream.aborted) =>
         Messages(stream.out) = Yielded(stream.script)

\* a producer that yields values and returns a value, read to its end
C37_Witness ==
  /\ stream.pc = "done" /\ stream.chunked /\ ~stream.aborted
  /\ stream.fin = "v"
  /\ Len(stream.script) >= 2
  /\ stream.out = Yielded(stream.script)
  /\ Len(stream.out) = Len(stream.script)

\* g is the next() invocation made by the catch block of invocation f
\* (line 805), after getResForError gave the response to store
CatchReentry(r, f, g) ==
  /\ frames[r][f].caught
  /\ frames[r][f].pc \in {"awaitRec", "done"}
  /\ frames[r][f].tmp.st = "ok"
  /\ frames[r][f].rec = g
Settled(r) == call[r].st \in {"done", "rejected"}

\* C38: handle() terminates when its callbacks do; the next() invocation a
\* catch block makes either runs the next middleware of the chain or
\* returns the stored handlerResponse, never running validation or the
\* handler, no catch block re-enters twice, and no middleware is invoked
\* twice
C38_Terminates ==
  /\ \A r \in Reqs : Started(r) ~> Settled(r)
  /\ [](\A r \in Reqs :
          /\ \A i \in 1..Len(call[r].middlewares) : Times(r, "mw", i) <= 1
          /\ \A f, g \in DOMAIN frames[r] :
               CatchReentry(r, f, g) =>
                 /\ frames[r][g].pc \notin {"valQ", "valP", "awaitH", "awaitTurnH",
                                            "awaitStream"}
                 /\ (frames[r][g].pc # "enter" /\ frames[r][g].mw = 0) =>
                      /\ frames[r][g].pc = "done"
                      /\ frames[r][g].out = Resolved(frames[r][f].tmp.v)
                      /\ isResponse(frames[r][g].out.v)
                 /\ \A h \in DOMAIN frames[r] :
                      (h # g /\ frames[r][h].caller = f
                         /\ frames[r][h].via = "rec") => h < g /\ ~CatchReentry(r, f, h))

\* the handler threw, the chain was re-entered once and handle() returned
\* the stored error response, the handler having run once
C38_Witness ==
  \E r \in Reqs :
    /\ Done(r) /\ Matched(r)
    /\ call[r].internalRoute.handler = "throwErr"
    /\ Len(call[r].middlewares) >= 1
    /\ Times(r, "handler", 0) = 1
    /\ \E f, g \in DOMAIN frames[r] :
         CatchReentry(r, f, g) /\ frames[r][g].mw = 0 /\ frames[r][f].mw = 0
    /\ FinalResponse(r).by = "error"

\* a middleware threw before the last one: the re-entry ran the next one
C38_WitnessAdvance ==
  \E r \in Reqs :
    /\ Settled(r)
    /\ \E f, g \in DOMAIN frames[r] :
         /\ CatchReentry(r, f, g)
         /\ frames[r][f].mw >= 1
         /\ frames[r][g].mw = frames[r][f].mw + 1

\* the parent of an application of the tree (0: the root)
ParentOf(a) ==
  IF \E p \in 1..napps : Includes(childrenApps[p], a)
  THEN CHOOSE p \in 1..napps : Includes(childrenApps[p], a)
  ELSE 0
RECURSIVE PathFromRoot(_)
PathFromRoot(a) ==
  IF ParentOf(a) = 0 THEN <<a>> ELSE Append(PathFromRoot(ParentOf(a)), a)

\* C39: after any sequence of handle() calls on applications of a tree,
\* every node whose topLevelApp is set has it pointing to the root of the
\* tree, and the ancestors computed from it are the list from the root to
\* the node inclusive
C39_TopLevelApp ==
  \A node \in 1..napps :
    topLevelApp[node] # 0 =>
      /\ topLevelApp[node] = Root
      /\ getAppAndParents(childrenApps, topLevelApp[node], node) =
           PathFromRoot(node)

====
